---- MODULE Spec2Model ----
(***************************************************************************)
(* Weather prediction demo: the serving flow of app.py (form parsing,      *)
(* heuristic feature inference, categorical encoding, one classifier call) *)
(* and the offline flow of data_processing.py (load, preprocess, label     *)
(* encode, split and persist), followed in training_pipeline.py by the     *)
(* trainer of model_training.py (load, fit and persist, evaluate).         *)
(*                                                                         *)
(* Numbers.  A Python float is a record [k, v]: k is "fin", "nan", "inf"   *)
(* or "-inf" and, for a finite float, v is the value in units of 1/Unit.   *)
(* Every posted literal has at most one decimal digit, and Unit is chosen  *)
(* so that every value app.py derives from such literals is an integer     *)
(* number of units: the arithmetic of the model is exact.  A Python int is *)
(* a TLA+ integer.                                                         *)
(***************************************************************************)
EXTENDS Integers, Sequences, FiniteSets, TLC

VARIABLES
  DEFAULTS,      \* app.py DEFAULTS, built when the module is imported
  model,         \* app.py model, loaded when the module is imported
  request,       \* the request being handled: <<>> or <<[method, form]>>
  response,      \* what index() rendered for it: <<>> or <<[prediction, error, inputs, X]>>
  csv,           \* artifacts/raw/data.csv as the processor finds it
  df,            \* DataProcessing.df: <<>> (None) or <<[columns, rows]>>
  label_log,     \* the label mappings label_encode has logged, per column
  inplace_fill,  \* whether the installed pandas lets a chained inplace fillna reach df
  processed,     \* artifacts/processed: file name -> persisted object
  raised,        \* the exception that ended the run: <<>> or <<message>>
  pc,            \* where the run stands
  trainer,       \* the ModelTraining instance: <<>> or <<[X_train, X_test, y_train, y_test, model]>>
  models,        \* artifacts/models: file name -> persisted object
  metrics,       \* the evaluation results eval_model has logged: <<>> or <<[...]>>
  threads        \* the requests in flight of the threaded server, one per worker thread

vars == <<DEFAULTS, model, request, response,
          csv, df, inplace_fill, label_log, processed, raised, pc,
          trainer, models, metrics, threads>>

servingVars == <<DEFAULTS, model, request, response>>

trainingVars == <<csv, df, inplace_fill, label_log, processed, raised, pc>>

trainerVars == <<trainer, models, metrics>>

Range(s) == {s[i] : i \in DOMAIN s}

\* dict.get(key, default)
DictGet(d, key, default) == IF key \in DOMAIN d THEN d[key] ELSE default

\* {x: i for i, x in enumerate(list)}: a repeated key keeps its last index
EnumerateMap(list) ==
  [x \in Range(list) |->
     (CHOOSE i \in DOMAIN list :
        list[i] = x /\ \A j \in DOMAIN list : list[j] = x => j <= i) - 1]

(***************************************************************************)
(* Encoders and choices of app.py                                          *)
(***************************************************************************)
WIND_DIRS ==
  <<
    "N", "NNE", "NE", "ENE", "E", "ESE", "SE", "SSE",
    "S", "SSW", "SW", "WSW", "W", "WNW", "NW", "NNW"
  >>

WIND_DIR_MAP == EnumerateMap(WIND_DIRS)

YES_NO_MAP == ("No" :> 0) @@ ("Yes" :> 1)

LOCATIONS ==
  <<
    "Adelaide", "Albury", "AliceSprings", "BadgerysCreek", "Ballarat",
    "Bendigo", "Brisbane", "Cairns", "Canberra", "Cobar",
    "CoffsHarbour", "Dartmoor", "Darwin", "GoldCoast", "Hobart",
    "Katherine", "Launceston", "Melbourne", "MelbourneAirport", "Mildura",
    "Moree", "MountGambier", "MountGinini", "Nhil", "NorahHead",
    "NorfolkIsland", "Nuriootpa", "PearceRAAF", "Penrith", "Perth",
    "PerthAirport", "Portland", "Richmond", "Sale", "SalmonGums",
    "Sydney", "SydneyAirport", "Townsville", "Tuggeranong", "Uluru",
    "WaggaWagga", "Walpole", "Watsonia", "Williamtown", "Witchcliffe",
    "Wollongong", "Woomera"
  >>

\* enumerate(LOCATIONS, 1): the codes counted from 1
LOCATION_MAP_FromOne == [x \in Range(LOCATIONS) |-> EnumerateMap(LOCATIONS)[x] + 1]

LOCATION_MAP == EnumerateMap(LOCATIONS)

\* the table with a direction that is no compass label for Hobart and Launceston
PREVAILING_BY_LOCATION_West ==
  ("Sydney" :> "NE") @@ ("SydneyAirport" :> "NE") @@ ("Wollongong" :> "NE") @@
  ("Melbourne" :> "SW") @@ ("MelbourneAirport" :> "SW") @@ ("Geelong" :> "SW") @@
  ("Perth" :> "SW") @@ ("PerthAirport" :> "SW") @@
  ("Brisbane" :> "SE") @@ ("GoldCoast" :> "SE") @@ ("Cairns" :> "SE") @@
  ("Townsville" :> "SE") @@
  ("Hobart" :> "West") @@ ("Launceston" :> "West") @@
  ("Darwin" :> "NW") @@ ("Katherine" :> "NW")

PREVAILING_BY_LOCATION ==
  ("Sydney" :> "NE") @@ ("SydneyAirport" :> "NE") @@ ("Wollongong" :> "NE") @@
  ("Melbourne" :> "SW") @@ ("MelbourneAirport" :> "SW") @@ ("Geelong" :> "SW") @@
  ("Perth" :> "SW") @@ ("PerthAirport" :> "SW") @@
  ("Brisbane" :> "SE") @@ ("GoldCoast" :> "SE") @@ ("Cairns" :> "SE") @@
  ("Townsville" :> "SE") @@
  ("Hobart" :> "W") @@ ("Launceston" :> "W") @@
  ("Darwin" :> "NW") @@ ("Katherine" :> "NW")

(***************************************************************************)
(* Floats                                                                  *)
(***************************************************************************)
\* 1/Unit is the resolution of the model's floats: tenths of a unit divided
\* by 1.7 (temp3pm) and multiplied by 0.03 (evaporation) stay integral
Unit == 17 * 1000

Fl(v) == [k |-> "fin", v |-> v]

NaN == [k |-> "nan", v |-> 0]

PosInf == [k |-> "inf", v |-> 0]

NegInf == [k |-> "-inf", v |-> 0]

\* an int n, or a decimal with n tenths, as a float
FromInt(n) == Fl(n * Unit)

Tenths(n) == Fl(n * (Unit \div 10))

\* a < b on floats: every comparison with NaN is false
FLt(a, b) ==
  /\ a.k # "nan"
  /\ b.k # "nan"
  /\ CASE a.k = "-inf" -> b.k # "-inf"
       [] a.k = "inf"  -> FALSE
       [] OTHER        -> b.k = "inf" \/ (b.k = "fin" /\ a.v < b.v)

FGt(a, b) == FLt(b, a)

FLe(a, b) == a.k # "nan" /\ b.k # "nan" /\ ~FLt(b, a)

\* the builtins max(a, b) and min(a, b): the first argument unless the second
\* is strictly greater (smaller)
PyMax(a, b) == IF FGt(b, a) THEN b ELSE a

PyMin(a, b) == IF FLt(b, a) THEN b ELSE a

IntMax(a, b) == IF b > a THEN b ELSE a

IntMin(a, b) == IF b < a THEN b ELSE a

\* a*x + b*y over den, on finite floats or NaN (NaN is contagious)
Lin(a, x, b, y, den) ==
  IF x.k = "nan" \/ y.k = "nan" THEN NaN ELSE Fl((a * x.v + b * y.v) \div den)

\* round(): num/den to the nearest integer, ties to the even one
RoundHalfEven(num, den) ==
  LET f == num \div den
      r == num - f * den
  IN  IF 2 * r < den THEN f
      ELSE IF 2 * r > den THEN f + 1
      ELSE IF f % 2 = 0 THEN f ELSE f + 1

(***************************************************************************)
(* UI ranges and defaults of app.py                                        *)
(***************************************************************************)
\* RANGES with the wind speed accepted up to the cap of the gust speed
RANGES_Wind150 ==
  [MinTemp      |-> [min |-> -10, max |-> 45],
   MaxTemp      |-> [min |-> -10, max |-> 50],
   Rainfall     |-> [min |-> 0,   max |-> 200],
   WindSpeed3pm |-> [min |-> 0,   max |-> 150],
   Humidity3pm  |-> [min |-> 0,   max |-> 100]]

\* RANGES: the "min" and "max" of each field ("step" is only rendered)
RANGES ==
  [MinTemp      |-> [min |-> -10, max |-> 45],
   MaxTemp      |-> [min |-> -10, max |-> 50],
   Rainfall     |-> [min |-> 0,   max |-> 200],
   WindSpeed3pm |-> [min |-> 0,   max |-> 100],
   Humidity3pm  |-> [min |-> 0,   max |-> 100]]

\* a value of the DEFAULTS / inputs dictionaries: a str, a float (n units) or an int
PyS(s) == [t |-> "str", s |-> s, n |-> 0]

PyF(tenths) == [t |-> "float", s |-> "", n |-> tenths * (Unit \div 10)]

PyI(n) == [t |-> "int", s |-> "", n |-> n]

\* DEFAULTS as built at import on the day `today`
MakeDEFAULTS(today) ==
  [Location     |-> PyS("Sydney"),
   Date         |-> PyS(today),
   MinTemp      |-> PyF(130),
   MaxTemp      |-> PyF(230),
   Humidity3pm  |-> PyI(55),
   WindSpeed3pm |-> PyI(20),
   Rainfall     |-> PyF(0)]

\* str(x) for the values DEFAULTS holds
PyStr(x) ==
  CASE x.t = "str"   -> x.s
    [] x.t = "float" -> (CASE x.n = 13 * Unit -> "13.0"
                           [] x.n = 23 * Unit -> "23.0"
                           [] x.n = 0         -> "0.0")
    [] x.t = "int"   -> (CASE x.n = 55 -> "55"
                           [] x.n = 20 -> "20")

(***************************************************************************)
(* Helpers: parsing.  A call returns [ok, v, err]: the value v, or the     *)
(* exception err it raised.                                                *)
(***************************************************************************)
Return(v) == [ok |-> TRUE, v |-> <<v>>, err |-> <<>>]

Raise(name, what) == [ok |-> FALSE, v |-> <<>>, err |-> <<[name |-> name, what |-> what]>>]

\* the decimal texts of the integers -10, -9, ...
IntTexts ==
  <<
    "-10", "-9", "-8", "-7", "-6", "-5", "-4", "-3", "-2", "-1", "0", "1",
    "2", "3", "4", "5", "6", "7", "8", "9", "10", "11", "12", "13",
    "14", "15", "16", "17", "18", "19", "20", "21", "22", "23", "24", "25",
    "26", "27", "28", "29", "30", "31", "32", "33", "34", "35", "36", "37",
    "38", "39", "40", "41", "42", "43", "44", "45", "46", "47", "48", "49",
    "50", "51", "52", "53", "54", "55", "56", "57", "58", "59", "60", "61",
    "62", "63", "64", "65", "66", "67", "68", "69", "70", "71", "72", "73",
    "74", "75", "76", "77", "78", "79", "80", "81", "82", "83", "84", "85",
    "86", "87", "88", "89", "90", "91", "92", "93", "94", "95", "96", "97",
    "98", "99", "100", "101", "102", "103", "104", "105", "106", "107", "108", "109",
    "110", "111", "112", "113", "114", "115", "116", "117", "118", "119", "120", "121",
    "122", "123", "124", "125", "126", "127", "128", "129", "130", "131", "132", "133",
    "134", "135", "136", "137", "138", "139", "140", "141", "142", "143", "144", "145",
    "146", "147", "148", "149", "150"
  >>

\* float(value) for the literals the requests of the model post: the integers
\* of IntTexts, some decimals, and nan / inf; any other text ("abc", "") is no
\* float literal and float() raises ValueError
FloatLiteral ==
  [t \in Range(IntTexts) |->
     FromInt((CHOOSE i \in DOMAIN IntTexts : IntTexts[i] = t) - 11)] @@
  ("0.0" :> Tenths(0)) @@ ("0.1" :> Tenths(1)) @@ ("0.2" :> Tenths(2)) @@
  ("0.3" :> Tenths(3)) @@ ("13.0" :> Tenths(130)) @@ ("23.0" :> Tenths(230)) @@
  ("6.5" :> Tenths(65)) @@ ("30.5" :> Tenths(305)) @@ ("45.1" :> Tenths(451)) @@ ("50.1" :> Tenths(501)) @@
  ("62.5" :> Tenths(625)) @@ ("99.5" :> Tenths(995)) @@ ("100.4" :> Tenths(1004)) @@
  ("200" :> Tenths(2000)) @@ ("200.1" :> Tenths(2001)) @@
  ("-10.1" :> Tenths(-101)) @@ ("-0.1" :> Tenths(-1)) @@
  ("nan" :> NaN) @@ ("inf" :> PosInf) @@ ("-inf" :> NegInf)

\* the text of the integer n
IntText(n) == IntTexts[n + 11]

_parse_float(name, value) ==
  IF value \in DOMAIN FloatLiteral
    THEN Return(FloatLiteral[value])
    ELSE Raise(name, "value must be numeric")

_parse_float_in_range(name, value, lo, hi) ==
  LET x == _parse_float(name, value)
  IN  IF ~x.ok THEN x
      ELSE IF FLt(x.v[1], FromInt(lo)) \/ FGt(x.v[1], FromInt(hi))
        THEN Raise(name, "out of range")
        ELSE x

\* int(round(x)): round() of NaN raises ValueError
_parse_int_in_range(name, value, lo, hi) ==
  LET x == _parse_float_in_range(name, value, lo, hi)
  IN  IF ~x.ok THEN x
      ELSE IF x.v[1].k = "nan"
        THEN Raise("ValueError", "cannot convert float NaN to integer")
        ELSE Return(RoundHalfEven(x.v[1].v, Unit))

\* the texts of the model that have the shape YYYY-MM-DD, split in their fields
IsoParts ==
  ("2024-07-15" :> <<2024, 7, 15>>) @@ ("2024-01-31" :> <<2024, 1, 31>>) @@
  ("2024-02-30" :> <<2024, 2, 30>>) @@ ("2024-04-02" :> <<2024, 4, 2>>) @@
  ("2023-10-05" :> <<2023, 10, 5>>) @@
  ("2025-01-01" :> <<2025, 1, 1>>) @@ ("2024-02-29" :> <<2024, 2, 29>>) @@
  ("2025-02-29" :> <<2025, 2, 29>>) @@ ("2025-03-01" :> <<2025, 3, 1>>) @@
  ("2025-04-30" :> <<2025, 4, 30>>) @@ ("2025-05-31" :> <<2025, 5, 31>>) @@
  ("2025-06-01" :> <<2025, 6, 1>>) @@ ("2025-07-04" :> <<2025, 7, 4>>) @@
  ("2025-08-31" :> <<2025, 8, 31>>) @@ ("2025-09-01" :> <<2025, 9, 1>>) @@
  ("2025-10-10" :> <<2025, 10, 10>>) @@ ("2025-11-30" :> <<2025, 11, 30>>) @@
  ("2025-12-01" :> <<2025, 12, 1>>) @@ ("2025-13-01" :> <<2025, 13, 1>>) @@
  ("2025-00-10" :> <<2025, 0, 10>>)

IsLeap(y) == (y % 4 = 0 /\ y % 100 # 0) \/ y % 400 = 0

DaysInMonth(y, m) ==
  IF m = 2 THEN (IF IsLeap(y) THEN 29 ELSE 28)
  ELSE IF m \in {4, 6, 9, 11} THEN 30 ELSE 31

\* dt.date.fromisoformat(value)
_parse_date(value) ==
  IF value \notin DOMAIN IsoParts
    THEN Raise("Date", "invalid format (expected YYYY-MM-DD)")
    ELSE LET p == IsoParts[value]
         IN  IF /\ p[1] \in 1..9999
                /\ p[2] \in 1..12
                /\ p[3] \in 1..DaysInMonth(p[1], p[2])
               THEN Return([year |-> p[1], month |-> p[2], day |-> p[3]])
               ELSE Raise("Date", "invalid format (expected YYYY-MM-DD)")

(***************************************************************************)
(* Helpers: inference                                                      *)
(***************************************************************************)
\* the seasons of the northern hemisphere
_season_of_Northern(month) ==
  IF month \in {12, 1, 2} THEN "winter"
  ELSE IF month \in {3, 4, 5} THEN "spring"
  ELSE IF month \in {6, 7, 8} THEN "summer"
  ELSE "autumn"

_season_of(month) ==
  IF month \in {12, 1, 2} THEN "summer"
  ELSE IF month \in {3, 4, 5} THEN "autumn"
  ELSE IF month \in {6, 7, 8} THEN "winter"
  ELSE "spring"

_prevailing_dir_for_location(loc) == DictGet(PREVAILING_BY_LOCATION, loc, "SW")

\* request.form is a MultiDict: form[k] is the tuple of the values posted for
\* k, empty when k was not posted; form.get(k, default)
FormGet(form, k, default) == IF form[k] # <<>> THEN form[k][1] ELSE default

\* temp3pm as the bare sum min_temp + 0.7 * max_temp, neither normalised nor clamped
Temp3pmOf_BareSum(min_temp, max_temp) == Lin(10, min_temp, 7, max_temp, 10)

\* temp3pm: 3pm temperature tends towards the daily max
Temp3pmOf(min_temp, max_temp) ==
  PyMin(max_temp, PyMax(min_temp, Lin(10, min_temp, 7, max_temp, 17)))

\* temp9am closer to the daily max: 0.4 * min_temp + 0.6 * max_temp
Temp9amOf_TowardsMax(min_temp, max_temp) ==
  PyMax(min_temp, PyMin(max_temp, Lin(4, min_temp, 6, max_temp, 10)))

\* temp9am: 9am temperature closer to the daily min
Temp9amOf(min_temp, max_temp) ==
  PyMax(min_temp, PyMin(max_temp, Lin(6, min_temp, 4, max_temp, 10)))

\* sunshine hours by season
SunshineOf(season) ==
  DictGet(("summer" :> Tenths(90)) @@ ("autumn" :> Tenths(70)) @@
          ("winter" :> Tenths(50)) @@ ("spring" :> Tenths(80)),
          season, Tenths(70))

\* cloud3pm truncated by int() instead of rounded
Cloud3pmOf_Truncated(hum_3pm) == IntMax(0, IntMin(8, (hum_3pm * 8) \div 100))

\* cloud3pm (oktas) from the humidity
Cloud3pmOf(hum_3pm) == IntMax(0, IntMin(8, RoundHalfEven(hum_3pm * 8, 100)))

\* pressure3pm as the 1015 hPa base whatever the humidity
Pressure3pmOf_NoHumidity(hum_3pm) == Tenths(10150)

\* pressure3pm: round(1015.0 - 0.08 * (hum_3pm - 50), 1)
Pressure3pmOf(hum_3pm) == Tenths(RoundHalfEven(101500 - 8 * (hum_3pm - 50), 10))

\* gust_speed: 3pm wind + 20, bounded
GustSpeedOf(spd_3pm) == IntMin(150, IntMax(spd_3pm + 20, spd_3pm))

\* spd_9am without the clamp at 0
Spd9amOf_Unclamped(spd_3pm) == spd_3pm - 3

\* spd_9am: a little lighter
Spd9amOf(spd_3pm) == IntMax(0, spd_3pm - 3)

\* evaporation from sunshine and diurnal range
EvaporationOf(sunshine, min_temp, max_temp) ==
  PyMax(Tenths(0),
        IF min_temp.k = "nan" \/ max_temp.k = "nan" THEN NaN
        ELSE Fl((12 * sunshine.v + 3 * (max_temp.v - min_temp.v)) \div 100))

\* rain_today with the threshold included (rainfall >= 0.2)
RainTodayOf_Inclusive(rainfall) == IF FLe(Tenths(2), rainfall) THEN "Yes" ELSE "No"

\* rain_today from the rainfall threshold
RainTodayOf(rainfall) == IF FGt(rainfall, Tenths(2)) THEN "Yes" ELSE "No"

\* loc_enc with -1 for a location the table lacks
LocationCode_MinusOne(loc) == DictGet(LOCATION_MAP, loc, -1)

\* loc_enc
LocationCode(loc) == DictGet(LOCATION_MAP, loc, 0)

\* dir3pm_enc
WindDirCode(dir) == DictGet(WIND_DIR_MAP, dir, WIND_DIR_MAP["SW"])

\* lines 263-335 of _infer_missing_features: the features from the parsed inputs
InferredFeatures(loc, date, min_temp, max_temp, hum_3pm, spd_3pm, rainfall) ==
  LET season      == _season_of(date.month)
      temp3pm     == Temp3pmOf(min_temp, max_temp)
      temp9am     == Temp9amOf(min_temp, max_temp)
      sunshine    == SunshineOf(season)
      cloud3pm    == Cloud3pmOf(hum_3pm)
      cloud9am    == cloud3pm
      pressure3pm == Pressure3pmOf(hum_3pm)
      pressure9am == pressure3pm
      dir3pm      == _prevailing_dir_for_location(loc)
      gust_speed  == GustSpeedOf(spd_3pm)
      spd_9am     == Spd9amOf(spd_3pm)
      evaporation == EvaporationOf(sunshine, min_temp, max_temp)
      rain_today  == RainTodayOf(rainfall)
      loc_enc     == LocationCode(loc)
      dir3pm_enc  == WindDirCode(dir3pm)
      dir9am_enc  == dir3pm_enc
      gust_dir_enc == dir3pm_enc
      rain_today_enc == YES_NO_MAP[rain_today]
  IN  [Location      |-> loc_enc,
       MinTemp       |-> min_temp,
       MaxTemp       |-> max_temp,
       Rainfall      |-> rainfall,
       Evaporation   |-> evaporation,
       Sunshine      |-> sunshine,
       WindGustDir   |-> gust_dir_enc,
       WindGustSpeed |-> gust_speed,
       WindDir9am    |-> dir9am_enc,
       WindDir3pm    |-> dir3pm_enc,
       WindSpeed9am  |-> spd_9am,
       WindSpeed3pm  |-> spd_3pm,
       Humidity9am   |-> hum_3pm,
       Humidity3pm   |-> hum_3pm,
       Pressure9am   |-> pressure9am,
       Pressure3pm   |-> pressure3pm,
       Cloud9am      |-> cloud9am,
       Cloud3pm      |-> cloud3pm,
       Temp9am       |-> temp9am,
       Temp3pm       |-> temp3pm,
       RainToday     |-> rain_today_enc,
       Year          |-> date.year,
       Month         |-> date.month,
       Day           |-> date.day]

\* _infer_missing_features(form): the parsing in its order (the first failure
\* raises), then the derivations
_infer_missing_features(form, defaults) ==
  LET loc      == FormGet(form, "Location", defaults.Location.s)
      date     == _parse_date(FormGet(form, "Date", defaults.Date.s))
      min_temp == _parse_float_in_range("MinTemp",
                    FormGet(form, "MinTemp", PyStr(defaults.MinTemp)),
                    RANGES.MinTemp.min, RANGES.MinTemp.max)
      max_temp == _parse_float_in_range("MaxTemp",
                    FormGet(form, "MaxTemp", PyStr(defaults.MaxTemp)),
                    RANGES.MaxTemp.min, RANGES.MaxTemp.max)
      hum_3pm  == _parse_int_in_range("Humidity3pm",
                    FormGet(form, "Humidity3pm", PyStr(defaults.Humidity3pm)),
                    RANGES.Humidity3pm.min, RANGES.Humidity3pm.max)
      spd_3pm  == _parse_int_in_range("WindSpeed3pm",
                    FormGet(form, "WindSpeed3pm", PyStr(defaults.WindSpeed3pm)),
                    RANGES.WindSpeed3pm.min, RANGES.WindSpeed3pm.max)
      rainfall == _parse_float_in_range("Rainfall",
                    FormGet(form, "Rainfall", PyStr(defaults.Rainfall)),
                    RANGES.Rainfall.min, RANGES.Rainfall.max)
  IN  IF ~date.ok THEN date
      ELSE IF ~min_temp.ok THEN min_temp
      ELSE IF ~max_temp.ok THEN max_temp
      ELSE IF ~hum_3pm.ok THEN hum_3pm
      ELSE IF ~spd_3pm.ok THEN spd_3pm
      ELSE IF ~rainfall.ok THEN rainfall
      ELSE Return(InferredFeatures(loc, date.v[1], min_temp.v[1], max_temp.v[1],
                                   hum_3pm.v[1], spd_3pm.v[1], rainfall.v[1]))

\* `ordered` with MinTemp and MaxTemp exchanged
FeatureOrder_MinMaxSwapped ==
  <<"Location", "MaxTemp", "MinTemp", "Rainfall",
    "Evaporation", "Sunshine", "WindGustDir", "WindGustSpeed",
    "WindDir9am", "WindDir3pm", "WindSpeed9am", "WindSpeed3pm",
    "Humidity9am", "Humidity3pm", "Pressure9am", "Pressure3pm",
    "Cloud9am", "Cloud3pm", "Temp9am", "Temp3pm",
    "RainToday", "Year", "Month", "Day">>

\* `ordered` without its last value
FeatureOrder_DayDropped ==
  <<"Location", "MinTemp", "MaxTemp", "Rainfall",
    "Evaporation", "Sunshine", "WindGustDir", "WindGustSpeed",
    "WindDir9am", "WindDir3pm", "WindSpeed9am", "WindSpeed3pm",
    "Humidity9am", "Humidity3pm", "Pressure9am", "Pressure3pm",
    "Cloud9am", "Cloud3pm", "Temp9am", "Temp3pm",
    "RainToday", "Year", "Month">>

\* the keys `ordered` reads, in its order
FeatureOrder ==
  <<"Location", "MinTemp", "MaxTemp", "Rainfall",
    "Evaporation", "Sunshine", "WindGustDir", "WindGustSpeed",
    "WindDir9am", "WindDir3pm", "WindSpeed9am", "WindSpeed3pm",
    "Humidity9am", "Humidity3pm", "Pressure9am", "Pressure3pm",
    "Cloud9am", "Cloud3pm", "Temp9am", "Temp3pm",
    "RainToday", "Year", "Month", "Day">>

\* the values of _infer_missing_features that are Python ints (the others are floats)
IntFeatures ==
  {"Location", "WindGustDir", "WindGustSpeed", "WindDir9am", "WindDir3pm",
   "WindSpeed9am", "WindSpeed3pm", "Humidity9am", "Humidity3pm",
   "Cloud9am", "Cloud3pm", "RainToday", "Year", "Month", "Day"}

\* np.array([ordered], dtype=float): the one row, every value as a float
_build_feature_vector_from_inferred(vals) ==
  [i \in 1..Len(FeatureOrder) |->
     IF FeatureOrder[i] \in IntFeatures
       THEN FromInt(vals[FeatureOrder[i]])
       ELSE vals[FeatureOrder[i]]]

\* model.predict(X)[0]: the loaded classifier is a fixed function of the row;
\* the model stands for it by a threshold on one position
Predict(mdl, X) == IF FGt(X[mdl.position], mdl.threshold) THEN 1 ELSE 0

\* the label with the two outcomes exchanged
PredictionLabel_Swapped(y_pred) ==
  IF y_pred = 1 THEN "Rain Tomorrow: No" ELSE "Rain Tomorrow: Yes"

\* prediction = "Rain Tomorrow: Yes" if y_pred == 1 else "Rain Tomorrow: No"
PredictionLabel(y_pred) ==
  IF y_pred = 1 THEN "Rain Tomorrow: Yes" ELSE "Rain Tomorrow: No"

(***************************************************************************)
(* Route                                                                   *)
(***************************************************************************)
\* index(): what render_template receives, and the row handed to the model
index(req, defaults, mdl) ==
  LET inputs == defaults
      blank  == [prediction |-> <<>>, error |-> <<>>, inputs |-> inputs, X |-> <<>>]
  IN  IF req.method # "POST" THEN blank
      ELSE LET inferred == _infer_missing_features(req.form, defaults)
           IN  IF ~inferred.ok
                 THEN [blank EXCEPT !.error = inferred.err]
                 ELSE LET X == _build_feature_vector_from_inferred(inferred.v[1])
                          reflected ==
                            [k \in DOMAIN inputs |->
                               IF req.form[k] # <<>> /\ req.form[k][1] # ""
                                 THEN PyS(req.form[k][1])
                                 ELSE inputs[k]]
                          y_pred == Predict(mdl, X)
                      IN  [prediction |-> <<PredictionLabel(y_pred)>>,
                           error      |-> <<>>,
                           inputs     |-> reflected,
                           X          |-> X]

(***************************************************************************)
(* The serving process: requests arrive one at a time, index() handles     *)
(* each, the rendered page is returned                                     *)
(***************************************************************************)
\* a request posts at most MaxVaried fields that differ from BaseForm
MaxVaried == 3

\* the days on which the process may have been started (DEFAULTS["Date"])
StartDays == {"2024-04-02", "2023-10-05"}

\* the classifiers the process may have loaded
Models ==
  {[position |-> 14, threshold |-> FromInt(60)],
   [position |-> 21, threshold |-> Tenths(5)]}

BaseForm ==
  [Location     |-> <<"Sydney">>,
   Date         |-> <<"2024-07-15">>,
   MinTemp      |-> <<"10">>,
   MaxTemp      |-> <<"18">>,
   Humidity3pm  |-> <<"70">>,
   WindSpeed3pm |-> <<"15">>,
   Rainfall     |-> <<"0">>]

FormFields == DOMAIN BaseForm

\* what a request may post for each field; <<>> is a field left out
FormOptions ==
  [Location     |-> {<<>>, <<"Adelaide">>, <<"Hobart">>, <<"Woomera">>,
                     <<"Geelong">>, <<"Atlantis">>},
   Date         |-> {<<>>, <<"2024-01-31">>, <<"2024-02-30">>, <<"15/07/2024">>},
   MinTemp      |-> {<<>>, <<"-10">>, <<"30.5">>, <<"45.1">>, <<"nan">>},
   MaxTemp      |-> {<<"-10">>, <<"5">>, <<"50">>, <<"50.1">>, <<"abc">>},
   Humidity3pm  |-> {<<>>, <<"0">>, <<"6.5">>, <<"62.5">>, <<"99.5">>, <<"100.4">>,
                     <<"nan">>},
   WindSpeed3pm |-> {<<"0">>, <<"1">>, <<"2">>, <<"3">>, <<"100">>, <<"140">>},
   Rainfall     |-> {<<>>, <<"">>, <<"0.1">>, <<"0.2">>, <<"0.3">>, <<"200">>,
                     <<"200.1">>, <<"nan">>}]

FormChoices(varied, k) ==
  IF k \in varied THEN FormOptions[k] \cup {BaseForm[k]} ELSE {BaseForm[k]}

VariedForms ==
  UNION {[Location     : FormChoices(varied, "Location"),
          Date         : FormChoices(varied, "Date"),
          MinTemp      : FormChoices(varied, "MinTemp"),
          MaxTemp      : FormChoices(varied, "MaxTemp"),
          Humidity3pm  : FormChoices(varied, "Humidity3pm"),
          WindSpeed3pm : FormChoices(varied, "WindSpeed3pm"),
          Rainfall     : FormChoices(varied, "Rainfall")] :
         varied \in {v \in SUBSET FormFields : Cardinality(v) = MaxVaried}}

\* the dates the sweep posts: the months of the year and two texts whose month
\* is no month
DateTexts ==
  {"2025-01-01", "2024-02-29", "2025-02-29", "2025-03-01", "2025-04-30",
   "2025-05-31", "2025-06-01", "2025-07-04", "2025-08-31", "2025-09-01",
   "2025-10-10", "2025-11-30", "2025-12-01", "2025-13-01", "2025-00-10"}

\* the temperatures the sweep posts, as MinTemp and as MaxTemp
TempTexts ==
  {"-10.1", "-10", "-5", "0", "5", "10", "13.0", "18", "23.0", "30.5",
   "45", "45.1", "50", "50.1", "nan", "inf", "-inf"}

\* BaseForm with one input swept over its whole range and a little beyond:
\* every location of the vocabulary, every month, every integer humidity and
\* wind speed,
\* every pair of temperatures of TempTexts
SweepForms ==
  {[BaseForm EXCEPT !.Location = <<LOCATIONS[i]>>] : i \in DOMAIN LOCATIONS} \cup
  {[BaseForm EXCEPT !.Date = <<d>>] : d \in DateTexts} \cup
  {[BaseForm EXCEPT !.Humidity3pm = <<IntText(h)>>] : h \in -1..101} \cup
  {[BaseForm EXCEPT !.WindSpeed3pm = <<IntText(s)>>] : s \in -1..150} \cup
  {[BaseForm EXCEPT !.MinTemp = <<lo>>, !.MaxTemp = <<hi>>] :
     lo \in TempTexts, hi \in TempTexts}

Forms == VariedForms \cup SweepForms

EmptyForm == [k \in FormFields |-> <<>>]

ServingInit ==
  /\ DEFAULTS \in {MakeDEFAULTS(today) : today \in StartDays}
  /\ model \in Models
  /\ request = <<>>
  /\ response = <<>>

\* a GET of "/" arrives
ReceiveGet ==
  /\ request = <<>>
  /\ request' = <<[method |-> "GET", form |-> EmptyForm]>>
  /\ UNCHANGED <<DEFAULTS, model, response>>

\* a POST of the form arrives
ReceivePost ==
  /\ request = <<>>
  /\ \E form \in Forms : request' = <<[method |-> "POST", form |-> form]>>
  /\ UNCHANGED <<DEFAULTS, model, response>>

\* index() runs on the request
Index ==
  /\ request # <<>>
  /\ response = <<>>
  /\ response' = <<index(request[1], DEFAULTS, model)>>
  /\ UNCHANGED <<DEFAULTS, model, request>>

\* the rendered page is returned and the request context is torn down
Respond ==
  /\ response # <<>>
  /\ request' = <<>>
  /\ response' = <<>>
  /\ UNCHANGED <<DEFAULTS, model>>

(***************************************************************************)
(* The offline flow: data_processing.py                                    *)
(*                                                                         *)
(* A dataframe is [columns, rows]: the column names in their order and the *)
(* rows, each a function from column name to cell.  A cell is a string, a  *)
(* number n/d, or missing (NaN / NaT).                                     *)
(***************************************************************************)
Str(s) == [k |-> "str", s |-> s, n |-> 0, d |-> 1]

Num(n, d) == [k |-> "num", s |-> "", n |-> n, d |-> d]

NA == [k |-> "nan", s |-> "", n |-> 0, d |-> 1]

Without(columns, name) == SelectSeq(columns, LAMBDA c : c # name)

\* the code points of the labels the dataset holds: Python orders str by them
Codepoints ==
  "Adelaide" :> <<65, 100, 101, 108, 97, 105, 100, 101>> @@
  "Albury" :> <<65, 108, 98, 117, 114, 121>> @@
  "AliceSprings" :> <<65, 108, 105, 99, 101, 83, 112, 114, 105, 110, 103, 115>> @@
  "BadgerysCreek" :> <<66, 97, 100, 103, 101, 114, 121, 115, 67, 114, 101, 101, 107>> @@
  "Ballarat" :> <<66, 97, 108, 108, 97, 114, 97, 116>> @@
  "Bendigo" :> <<66, 101, 110, 100, 105, 103, 111>> @@
  "Brisbane" :> <<66, 114, 105, 115, 98, 97, 110, 101>> @@
  "Cairns" :> <<67, 97, 105, 114, 110, 115>> @@
  "Canberra" :> <<67, 97, 110, 98, 101, 114, 114, 97>> @@
  "Cobar" :> <<67, 111, 98, 97, 114>> @@
  "CoffsHarbour" :> <<67, 111, 102, 102, 115, 72, 97, 114, 98, 111, 117, 114>> @@
  "Dartmoor" :> <<68, 97, 114, 116, 109, 111, 111, 114>> @@
  "Darwin" :> <<68, 97, 114, 119, 105, 110>> @@
  "GoldCoast" :> <<71, 111, 108, 100, 67, 111, 97, 115, 116>> @@
  "Hobart" :> <<72, 111, 98, 97, 114, 116>> @@
  "Katherine" :> <<75, 97, 116, 104, 101, 114, 105, 110, 101>> @@
  "Launceston" :> <<76, 97, 117, 110, 99, 101, 115, 116, 111, 110>> @@
  "Melbourne" :> <<77, 101, 108, 98, 111, 117, 114, 110, 101>> @@
  "MelbourneAirport" :> <<77, 101, 108, 98, 111, 117, 114, 110, 101, 65, 105, 114, 112, 111, 114, 116>> @@
  "Mildura" :> <<77, 105, 108, 100, 117, 114, 97>> @@
  "Moree" :> <<77, 111, 114, 101, 101>> @@
  "MountGambier" :> <<77, 111, 117, 110, 116, 71, 97, 109, 98, 105, 101, 114>> @@
  "MountGinini" :> <<77, 111, 117, 110, 116, 71, 105, 110, 105, 110, 105>> @@
  "Nhil" :> <<78, 104, 105, 108>> @@
  "NorahHead" :> <<78, 111, 114, 97, 104, 72, 101, 97, 100>> @@
  "NorfolkIsland" :> <<78, 111, 114, 102, 111, 108, 107, 73, 115, 108, 97, 110, 100>> @@
  "Nuriootpa" :> <<78, 117, 114, 105, 111, 111, 116, 112, 97>> @@
  "PearceRAAF" :> <<80, 101, 97, 114, 99, 101, 82, 65, 65, 70>> @@
  "Penrith" :> <<80, 101, 110, 114, 105, 116, 104>> @@
  "Perth" :> <<80, 101, 114, 116, 104>> @@
  "PerthAirport" :> <<80, 101, 114, 116, 104, 65, 105, 114, 112, 111, 114, 116>> @@
  "Portland" :> <<80, 111, 114, 116, 108, 97, 110, 100>> @@
  "Richmond" :> <<82, 105, 99, 104, 109, 111, 110, 100>> @@
  "Sale" :> <<83, 97, 108, 101>> @@
  "SalmonGums" :> <<83, 97, 108, 109, 111, 110, 71, 117, 109, 115>> @@
  "Sydney" :> <<83, 121, 100, 110, 101, 121>> @@
  "SydneyAirport" :> <<83, 121, 100, 110, 101, 121, 65, 105, 114, 112, 111, 114, 116>> @@
  "Townsville" :> <<84, 111, 119, 110, 115, 118, 105, 108, 108, 101>> @@
  "Tuggeranong" :> <<84, 117, 103, 103, 101, 114, 97, 110, 111, 110, 103>> @@
  "Uluru" :> <<85, 108, 117, 114, 117>> @@
  "WaggaWagga" :> <<87, 97, 103, 103, 97, 87, 97, 103, 103, 97>> @@
  "Walpole" :> <<87, 97, 108, 112, 111, 108, 101>> @@
  "Watsonia" :> <<87, 97, 116, 115, 111, 110, 105, 97>> @@
  "Williamtown" :> <<87, 105, 108, 108, 105, 97, 109, 116, 111, 119, 110>> @@
  "Witchcliffe" :> <<87, 105, 116, 99, 104, 99, 108, 105, 102, 102, 101>> @@
  "Wollongong" :> <<87, 111, 108, 108, 111, 110, 103, 111, 110, 103>> @@
  "Woomera" :> <<87, 111, 111, 109, 101, 114, 97>> @@
  "N" :> <<78>> @@
  "NNE" :> <<78, 78, 69>> @@
  "NE" :> <<78, 69>> @@
  "ENE" :> <<69, 78, 69>> @@
  "E" :> <<69>> @@
  "ESE" :> <<69, 83, 69>> @@
  "SE" :> <<83, 69>> @@
  "SSE" :> <<83, 83, 69>> @@
  "S" :> <<83>> @@
  "SSW" :> <<83, 83, 87>> @@
  "SW" :> <<83, 87>> @@
  "WSW" :> <<87, 83, 87>> @@
  "W" :> <<87>> @@
  "WNW" :> <<87, 78, 87>> @@
  "NW" :> <<78, 87>> @@
  "NNW" :> <<78, 78, 87>> @@
  "Albany" :> <<65, 108, 98, 97, 110, 121>> @@
  "Newcastle" :> <<78, 101, 119, 99, 97, 115, 116, 108, 101>> @@
  "Yes" :> <<89, 101, 115>> @@
  "No" :> <<78, 111>>

RECURSIVE SeqLess(_, _)
SeqLess(a, b) ==
  IF b = <<>> THEN FALSE
  ELSE IF a = <<>> THEN TRUE
  ELSE IF a[1] # b[1] THEN a[1] < b[1]
  ELSE SeqLess(Tail(a), Tail(b))

\* a < b on str
StrLess(a, b) == SeqLess(Codepoints[a], Codepoints[b])

\* LabelEncoder.fit: classes_ is the sorted array of the distinct labels, and a
\* label's code is its index in it (the number of classes before it)
LabelEncoderFit(labels) ==
  [c \in labels |-> Cardinality({b \in labels : StrLess(b, c)})]

\* the columns label_encode encodes, in its order
EncodedColumns ==
  <<"Location", "WindGustDir", "WindDir9am", "WindDir3pm", "RainToday", "RainTomorrow">>

EmptyLog == [c \in {} |-> <<>>]

\* the loop of label_encode over `cols`: a column the frame lacks raises
\* KeyError, the columns before it stay encoded and logged
RECURSIVE EncodeColumns(_, _, _)
EncodeColumns(frame, cols, log) ==
  IF cols = <<>> THEN [ok |-> TRUE, frame |-> frame, log |-> log]
  ELSE LET col == Head(cols)
       IN  IF col \notin Range(frame.columns)
             THEN [ok |-> FALSE, frame |-> frame, log |-> log]
             ELSE LET label_mapping ==
                        LabelEncoderFit({frame.rows[i][col].s : i \in DOMAIN frame.rows})
                      encoded ==
                        [i \in DOMAIN frame.rows |->
                           [frame.rows[i] EXCEPT
                              ![col] = Num(label_mapping[frame.rows[i][col].s], 1)]]
                  IN  EncodeColumns([frame EXCEPT !.rows = encoded], Tail(cols),
                                    (col :> label_mapping) @@ log)

RECURSIVE SumCells(_)
SumCells(cells) ==
  IF cells = <<>> THEN 0 ELSE Head(cells).n + SumCells(Tail(cells))

\* Series.mean(): the mean of the cells that are not missing (read_csv gave
\* them denominator 1), NaN when there is none
ColumnMean(frame, col) ==
  LET present == SelectSeq([i \in DOMAIN frame.rows |-> frame.rows[i][col]],
                           LAMBDA c : c.k # "nan")
  IN  IF present = <<>> THEN NA ELSE Num(SumCells(present), Len(present))

\* the dtype read_csv gives a column: object when a cell is a string
IsObject(frame, col) == \E i \in DOMAIN frame.rows : frame.rows[i][col].k = "str"

\* pd.to_datetime of a cell: NaT for a missing one
DateCell(cell, part) ==
  IF cell.k = "nan" THEN NA ELSE Num(_parse_date(cell.s).v[1][part], 1)

\* lines 140-166 of preprocess on a frame that has a Date column whose texts
\* parse; `reaches` tells whether Series.fillna(inplace=True) on the
\* chained df[col] reaches the frame (it does not under copy-on-write)
Preprocessed(frame, reaches) ==
  LET numerical == SelectSeq(frame.columns, LAMBDA c : ~IsObject(frame, c))
      columns   == Without(frame.columns \o <<"Year", "Month", "Day">>, "Date")
      filled(row, c) ==
        IF /\ reaches
           /\ c \in Range(numerical)
           /\ row[c].k = "nan"
          THEN ColumnMean(frame, c)
          ELSE row[c]
      expanded ==
        [i \in DOMAIN frame.rows |->
           [c \in Range(columns) |->
              CASE c = "Year"  -> DateCell(frame.rows[i]["Date"], "year")
                [] c = "Month" -> DateCell(frame.rows[i]["Date"], "month")
                [] c = "Day"   -> DateCell(frame.rows[i]["Date"], "day")
                [] OTHER       -> filled(frame.rows[i], c)]]
  IN  [columns |-> columns,
       rows    |-> SelectSeq(expanded,
                             LAMBDA row : \A c \in Range(columns) : row[c].k # "nan")]

\* train_test_split(X, Y, test_size=0.2): the sizes of the two parts
NTest(n) == (n + 4) \div 5

NTrain(n) == n - NTest(n)

\* the rows at the positions `from`..`to` of the shuffled order: the
\* permutation of the seeded generator is stood for by a rotation by `shift`
Shuffled(rows, shift, from, to) ==
  [j \in 1..(to - from + 1) |-> rows[((from + j - 2 + shift) % Len(rows)) + 1]]

Project(rows, columns) ==
  [i \in DOMAIN rows |-> [c \in Range(columns) |-> rows[i][c]]]

\* the files split_data dumps, in its order
SplitFiles == <<"X_train.pkl", "X_test.pkl", "y_train.pkl", "y_test.pkl">>

SplitObject(frame, shift, file) ==
  LET n  == Len(frame.rows)
      Xc == Without(frame.columns, "RainTomorrow")
      Yc == <<"RainTomorrow">>
      test  == Shuffled(frame.rows, shift, 1, NTest(n))
      train == Shuffled(frame.rows, shift, NTest(n) + 1, n)
  IN  CASE file = "X_train.pkl" -> [columns |-> Xc, rows |-> Project(train, Xc)]
        [] file = "X_test.pkl"  -> [columns |-> Xc, rows |-> Project(test, Xc)]
        [] file = "y_train.pkl" -> [columns |-> Yc, rows |-> Project(train, Yc)]
        [] file = "y_test.pkl"  -> [columns |-> Yc, rows |-> Project(test, Yc)]

(***************************************************************************)
(* The datasets the processor is run on                                    *)
(***************************************************************************)
\* the rows of data.csv
NumRows == 48

\* at most MaxEdits cells of the base dataset are missing or replaced
MaxEdits == 2

\* the shuffles train_test_split is given: rotations by 0..MaxShift
MaxShift == 1

\* the header of the weather dataset
DatasetColumns ==
  <<"Date", "Location", "MinTemp", "MaxTemp", "Rainfall", "Evaporation",
    "Sunshine", "WindGustDir", "WindGustSpeed", "WindDir9am", "WindDir3pm",
    "WindSpeed9am", "WindSpeed3pm", "Humidity9am", "Humidity3pm",
    "Pressure9am", "Pressure3pm", "Cloud9am", "Cloud3pm", "Temp9am",
    "Temp3pm", "RainToday", "RainTomorrow">>

\* the headers of the model: the dataset's, Date or RainTomorrow moved, two
\* measurements exchanged, and a header that lacks RainTomorrow or Date
Headers ==
  {DatasetColumns,
   Without(DatasetColumns, "Date") \o <<"Date">>,
   <<"RainTomorrow">> \o Without(DatasetColumns, "RainTomorrow"),
   [i \in DOMAIN DatasetColumns |->
      IF i = 3 THEN DatasetColumns[4]
      ELSE IF i = 4 THEN DatasetColumns[3] ELSE DatasetColumns[i]],
   Without(DatasetColumns, "RainTomorrow"),
   Without(DatasetColumns, "Date")}

RowDates == <<"2024-07-15", "2024-01-31", "2024-04-02", "2023-10-05">>

ColumnIndex(col) == CHOOSE i \in DOMAIN DatasetColumns : DatasetColumns[i] = col

\* the cell of row i of the base dataset; `rot` turns the order in which the
\* labels appear in the file
BaseCell(i, col, rot) ==
  CASE col = "Date"         -> Str(RowDates[(i % Len(RowDates)) + 1])
    [] col = "Location"     -> Str(LOCATIONS[((i + rot) % Len(LOCATIONS)) + 1])
    [] col = "WindGustDir"  -> Str(WIND_DIRS[((3 * i + rot) % Len(WIND_DIRS)) + 1])
    [] col = "WindDir9am"   -> Str(WIND_DIRS[((5 * i + rot) % Len(WIND_DIRS)) + 1])
    [] col = "WindDir3pm"   -> Str(WIND_DIRS[((7 * i + rot) % Len(WIND_DIRS)) + 1])
    [] col = "RainToday"    -> Str(IF i % 3 = 0 THEN "Yes" ELSE "No")
    [] col = "RainTomorrow" -> Str(IF i % 4 = 0 THEN "Yes" ELSE "No")
    [] OTHER                -> Num((7 * i + 3 * ColumnIndex(col)) % 40, 1)

\* the cells a dataset of the model may have changed
CellEdits ==
  {[row |-> 1, col |-> "MinTemp",     cell |-> NA],
   [row |-> 2, col |-> "MinTemp",     cell |-> NA],
   [row |-> 2, col |-> "Rainfall",    cell |-> NA],
   [row |-> 3, col |-> "WindGustDir", cell |-> NA],
   [row |-> 5, col |-> "Date",        cell |-> NA],
   [row |-> 4, col |-> "Date",        cell |-> Str("not-a-date")],
   [row |-> 1, col |-> "Location",    cell |-> Str("Albany")]}

Dataset(header, rot, edits) ==
  [columns |-> header,
   rows    |->
     [i \in 1..NumRows |->
        [c \in Range(header) |->
           IF \E e \in edits : e.row = i /\ e.col = c
             THEN (CHOOSE e \in edits : e.row = i /\ e.col = c).cell
             ELSE BaseCell(i, c, rot)]]]

Datasets ==
  {Dataset(header, rot, edits) :
     header \in Headers, rot \in {0, 5},
     edits \in {es \in SUBSET CellEdits : Cardinality(es) <= MaxEdits}}

EmptyDir == [f \in {} |-> <<>>]

(***************************************************************************)
(* DataProcessing.run: one action per step.  A step that raises ends the   *)
(* run: `raised` holds the message of its CustomException.                 *)
(***************************************************************************)
TrainingInit ==
  /\ csv \in {<<>>} \cup {<<d>> : d \in Datasets}
  /\ inplace_fill \in BOOLEAN
  /\ df = <<>>
  /\ label_log = EmptyLog
  /\ processed = EmptyDir
  /\ raised = <<>>
  /\ pc = "load_data"

Fail(message) ==
  /\ raised' = <<message>>
  /\ pc' = "failed"

load_data ==
  /\ pc = "load_data"
  /\ IF csv = <<>>
       THEN Fail("Failed to load data") /\ UNCHANGED df
       ELSE df' = csv /\ pc' = "preprocess" /\ UNCHANGED raised
  /\ UNCHANGED <<csv, inplace_fill, label_log, processed>>

preprocess ==
  /\ pc = "preprocess"
  /\ IF df = <<>>
       THEN Fail("Failed to preprocess data") /\ UNCHANGED df
       ELSE LET frame == df[1]
                parses(i) ==
                  \/ frame.rows[i]["Date"].k = "nan"
                  \/ /\ frame.rows[i]["Date"].k = "str"
                     /\ _parse_date(frame.rows[i]["Date"].s).ok
            IN  IF /\ "Date" \in Range(frame.columns)
                   /\ \A i \in DOMAIN frame.rows : parses(i)
                  THEN /\ df' = <<Preprocessed(frame, inplace_fill)>>
                       /\ pc' = "label_encode"
                       /\ UNCHANGED raised
                  ELSE Fail("Failed to preprocess data") /\ UNCHANGED df
  /\ UNCHANGED <<csv, inplace_fill, label_log, processed>>

label_encode ==
  /\ pc = "label_encode"
  /\ IF df = <<>>
       THEN Fail("Failed to label encode data") /\ UNCHANGED <<df, label_log>>
       ELSE LET done == EncodeColumns(df[1], EncodedColumns, label_log)
            IN  /\ df' = <<done.frame>>
                /\ label_log' = done.log
                /\ IF done.ok
                     THEN pc' = "split_data" /\ UNCHANGED raised
                     ELSE Fail("Failed to label encode data")
  /\ UNCHANGED <<csv, inplace_fill, processed>>

\* split_data: the split raises when a part would be empty; a dump may fail,
\* the files dumped before it stay
split_data ==
  /\ pc = "split_data"
  /\ IF \/ df = <<>>
        \/ "RainTomorrow" \notin Range(df[1].columns)
        \/ NTrain(Len(df[1].rows)) = 0
       THEN Fail("Failed to split data") /\ UNCHANGED processed
       ELSE \E shift \in 0..MaxShift, dumped \in 0..Len(SplitFiles) :
              /\ processed' =
                   [f \in DOMAIN processed \cup {SplitFiles[j] : j \in 1..dumped} |->
                      IF f \in {SplitFiles[j] : j \in 1..dumped}
                        THEN SplitObject(df[1], shift, f)
                        ELSE processed[f]]
              /\ IF dumped = Len(SplitFiles)
                   THEN pc' = "done" /\ UNCHANGED raised
                   ELSE Fail("Failed to split data")
  /\ UNCHANGED <<csv, inplace_fill, df, label_log>>

(***************************************************************************)
(* The trainer: model_training.py, run by training_pipeline.py once        *)
(* DataProcessing.run has returned.  The classifier is not modelled beyond *)
(* what the run depends on: a fit, a dump or an evaluation either returns  *)
(* or raises, and the scores are whatever the fitted model earns.          *)
(***************************************************************************)
\* the datasets every pipeline run may start from carry at most this many edited cells
MaxPipelineEdits == 1

\* the attributes load_data assigns with the labels first
LoadOrder_LabelsFirst == <<"y_train", "y_test", "X_train", "X_test">>

\* the attributes load_data assigns, in its order
LoadOrder == <<"X_train", "X_test", "y_train", "y_test">>

\* the file each attribute is loaded from
FileOf(attribute) ==
  CASE attribute = "X_train" -> "X_train.pkl"
    [] attribute = "X_test"  -> "X_test.pkl"
    [] attribute = "y_train" -> "y_train.pkl"
    [] attribute = "y_test"  -> "y_test.pkl"

\* ModelTraining.__init__: an unfitted classifier, no dataset
NewTrainer ==
  [X_train |-> <<>>, X_test |-> <<>>, y_train |-> <<>>, y_test |-> <<>>,
   model |-> <<>>]

\* the trainer after the first n assignments of load_data
Loaded(t, dir, n) ==
  [a \in DOMAIN t |->
     IF \E j \in 1..n : LoadOrder[j] = a THEN <<dir[FileOf(a)]>> ELSE t[a]]

\* the classifier after fit(X_train, y_train): what it was fitted on
Fitted(X, y) == [features |-> X.columns, rows |-> Len(X.rows)]

\* a model.pkl left by an earlier run
StaleModel == [features |-> <<>>, rows |-> 0]

\* the numbers of test rows the fitted model may get right
CorrectCounts(n) == {0, n \div 2, n}

\* the trainer constructed and run whether or not processor.run() returned
ModelTraining_init_AfterFailure ==
  /\ pc \in {"done", "failed"}
  /\ trainer' = <<NewTrainer>>
  /\ pc' = "trainer_load_data"
  /\ UNCHANGED <<csv, df, inplace_fill, label_log, processed, raised, models, metrics>>

\* trainer = ModelTraining(...), after processor.run() has returned
ModelTraining_init ==
  /\ pc = "done"
  /\ trainer' = <<NewTrainer>>
  /\ pc' = "trainer_load_data"
  /\ UNCHANGED <<csv, df, inplace_fill, label_log, processed, raised, models, metrics>>

\* ModelTraining.load_data: four loads in a row; a load raises when its file
\* is missing and may raise on a file that is there, the attributes assigned
\* before it stay
ModelTraining_load_data ==
  /\ pc = "trainer_load_data"
  /\ \E n \in 0..Len(LoadOrder) :
       /\ \A j \in 1..n : FileOf(LoadOrder[j]) \in DOMAIN processed
       /\ trainer' = <<Loaded(trainer[1], processed, n)>>
       /\ IF n = Len(LoadOrder)
            THEN pc' = "train_model" /\ UNCHANGED raised
            ELSE Fail("Failed to load data")
  /\ UNCHANGED <<csv, df, inplace_fill, label_log, processed, models, metrics>>

\* ModelTraining.train_model: fit, then dump model.pkl; either may raise
train_model ==
  /\ pc = "train_model"
  /\ LET fitted == Fitted(trainer[1].X_train[1], trainer[1].y_train[1])
     IN  \/ /\ Fail("Failed to train model")
            /\ UNCHANGED <<trainer, models>>
         \/ /\ trainer' = <<[trainer[1] EXCEPT !.model = <<fitted>>]>>
            /\ Fail("Failed to train model")
            /\ UNCHANGED models
         \/ /\ trainer' = <<[trainer[1] EXCEPT !.model = <<fitted>>]>>
            /\ models' = [f \in DOMAIN models \cup {"model.pkl"} |->
                            IF f = "model.pkl" THEN fitted ELSE models[f]]
            /\ pc' = "eval_model"
            /\ UNCHANGED raised
  /\ UNCHANGED <<csv, df, inplace_fill, label_log, processed, metrics>>

\* eval_model with a gate: a model that gets less than half of the test rows
\* right fails the run
eval_model_Gated ==
  /\ pc = "eval_model"
  /\ \/ /\ Fail("Failed to evaluate model")
        /\ UNCHANGED metrics
     \/ \E correct \in CorrectCounts(Len(trainer[1].X_test[1].rows)) :
          /\ metrics' = <<[correct |-> correct,
                           tested  |-> Len(trainer[1].X_test[1].rows)]>>
          /\ IF 2 * correct < Len(trainer[1].X_test[1].rows)
               THEN Fail("Failed to evaluate model")
               ELSE pc' = "completed" /\ UNCHANGED raised
  /\ UNCHANGED <<csv, df, inplace_fill, label_log, processed, trainer, models>>

\* ModelTraining.eval_model: scores are computed and logged, nothing is
\* compared with them; an exception raised on the way is wrapped and raised
eval_model ==
  /\ pc = "eval_model"
  /\ \/ /\ Fail("Failed to evaluate model")
        /\ UNCHANGED metrics
     \/ /\ \E correct \in CorrectCounts(Len(trainer[1].X_test[1].rows)) :
             metrics' = <<[correct |-> correct,
                           tested  |-> Len(trainer[1].X_test[1].rows)]>>
        /\ pc' = "completed"
        /\ UNCHANGED raised
  /\ UNCHANGED <<csv, df, inplace_fill, label_log, processed, trainer, models>>

(***************************************************************************)
(* The threaded server: app.run serves each request on a thread of its     *)
(* own, so several calls of index() are in flight at once.  A thread holds *)
(* the locals of its call; DEFAULTS and model are shared.  index() is cut  *)
(* at the points where another thread may run between two of its accesses  *)
(* to the shared objects.                                                  *)
(***************************************************************************)
\* the number of requests that may be in flight at once
NumThreads == 2

\* the forms the concurrent requests post
ConcurrentForms ==
  {BaseForm,
   [EmptyForm EXCEPT !.Location = <<"Hobart">>, !.MaxTemp = <<"30.5">>],
   [BaseForm EXCEPT !.Date = <<>>, !.Humidity3pm = <<"99.5">>, !.Rainfall = <<"0.3">>],
   [BaseForm EXCEPT !.MinTemp = <<>>, !.MaxTemp = <<"abc">>]}

\* `inputs` names the thread's own dict, which is DEFAULTS itself
InputsRef_Shared == "DEFAULTS"

\* `inputs = DEFAULTS.copy()`: `inputs` names a dict of the thread's own
InputsRef == "own"

\* a thread that handles no request
IdleThread ==
  [pc |-> "idle", method |-> "", form |-> EmptyForm, inputs |-> <<>>,
   X |-> <<>>, prediction |-> <<>>, error |-> <<>>, out |-> <<>>]

\* no request is in flight on any worker thread
ThreadsIdle == threads = <<>>

\* the dict `inputs` names in thread t
InputsOf(t) == IF InputsRef = "own" THEN threads[t].inputs[1] ELSE DEFAULTS

\* a request arrives on an idle thread; index() starts: prediction = None,
\* error = None, inputs = DEFAULTS.copy()
Begin(t) ==
  /\ threads[t].pc = "idle"
  /\ \E method \in {"GET", "POST"} :
       \E form \in (IF method = "POST" THEN ConcurrentForms ELSE {EmptyForm}) :
         threads' = [threads EXCEPT ![t] =
                       [IdleThread EXCEPT !.pc = IF method = "POST" THEN "infer"
                                                 ELSE "render",
                                          !.method = method,
                                          !.form = form,
                                          !.inputs = <<DEFAULTS>>]]
  /\ UNCHANGED <<DEFAULTS, model>>

\* inferred = _infer_missing_features(request.form) and the row built from
\* it; an exception leaves error set
Infer(t) ==
  /\ threads[t].pc = "infer"
  /\ LET inferred == _infer_missing_features(threads[t].form, DEFAULTS)
     IN  threads' = [threads EXCEPT ![t] =
                       IF inferred.ok
                         THEN [@ EXCEPT !.pc = "reflect",
                                        !.X = _build_feature_vector_from_inferred(
                                                inferred.v[1])]
                         ELSE [@ EXCEPT !.pc = "render", !.error = inferred.err]]
  /\ UNCHANGED <<DEFAULTS, model>>

\* for k in inputs: if k in request.form and request.form[k]: inputs[k] = ...
Reflect(t) ==
  /\ threads[t].pc = "reflect"
  /\ LET reflected ==
           [k \in DOMAIN InputsOf(t) |->
              IF threads[t].form[k] # <<>> /\ threads[t].form[k][1] # ""
                THEN PyS(threads[t].form[k][1])
                ELSE InputsOf(t)[k]]
     IN  IF InputsRef = "own"
           THEN /\ threads' = [threads EXCEPT ![t].pc = "predict",
                                              ![t].inputs = <<reflected>>]
                /\ UNCHANGED DEFAULTS
           ELSE /\ threads' = [threads EXCEPT ![t].pc = "predict"]
                /\ DEFAULTS' = reflected
  /\ UNCHANGED model

\* y_pred = model.predict(X)[0] and the label
PredictRow(t) ==
  /\ threads[t].pc = "predict"
  /\ threads' = [threads EXCEPT
                   ![t].pc = "render",
                   ![t].prediction = <<PredictionLabel(Predict(model, threads[t].X))>>]
  /\ UNCHANGED <<DEFAULTS, model>>

\* render_template(..., prediction, error, inputs, ...)
Render(t) ==
  /\ threads[t].pc = "render"
  /\ threads' = [threads EXCEPT
                   ![t].pc = "rendered",
                   ![t].out = <<[prediction |-> threads[t].prediction,
                                 error      |-> threads[t].error,
                                 inputs     |-> InputsOf(t),
                                 X          |-> threads[t].X]>>]
  /\ UNCHANGED <<DEFAULTS, model>>

\* the page is returned, the thread is free again
Finish(t) ==
  /\ threads[t].pc = "rendered"
  /\ threads' = [threads EXCEPT ![t] = IdleThread]
  /\ UNCHANGED <<DEFAULTS, model>>

(***************************************************************************)
(* Specifications: Spec is the serving process (the processor does not     *)
(* run), TrainSpec is one run of the processor (nothing is served),        *)
(* PipelineSpec is one run of training_pipeline.py (processor, then        *)
(* trainer), ConcurrentSpec is the serving process with several requests   *)
(* in flight                                                               *)
(***************************************************************************)
TrainingIdle ==
  /\ csv = <<>>
  /\ inplace_fill = TRUE
  /\ df = <<>>
  /\ label_log = EmptyLog
  /\ processed = EmptyDir
  /\ raised = <<>>
  /\ pc = "idle"

ServingIdle ==
  /\ DEFAULTS = MakeDEFAULTS("2024-04-02")
  /\ model = [position |-> 14, threshold |-> FromInt(60)]
  /\ request = <<>>
  /\ response = <<>>

\* no trainer has been constructed, no model has been persisted
TrainerIdle ==
  /\ trainer = <<>>
  /\ models = EmptyDir
  /\ metrics = <<>>

Init == ServingInit /\ TrainingIdle /\ TrainerIdle /\ ThreadsIdle

Next ==
  \/ ReceiveGet /\ UNCHANGED <<trainingVars, trainerVars, threads>>
  \/ ReceivePost /\ UNCHANGED <<trainingVars, trainerVars, threads>>
  \/ Index /\ UNCHANGED <<trainingVars, trainerVars, threads>>
  \/ Respond /\ UNCHANGED <<trainingVars, trainerVars, threads>>

Spec == Init /\ [][Next]_vars

TrainInit == ServingIdle /\ TrainingInit /\ TrainerIdle /\ ThreadsIdle

TrainNext ==
  \/ load_data /\ UNCHANGED <<servingVars, trainerVars, threads>>
  \/ preprocess /\ UNCHANGED <<servingVars, trainerVars, threads>>
  \/ label_encode /\ UNCHANGED <<servingVars, trainerVars, threads>>
  \/ split_data /\ UNCHANGED <<servingVars, trainerVars, threads>>

TrainSpec == TrainInit /\ [][TrainNext]_vars

\* the datasets a run of the whole pipeline may start from
PipelineDatasets ==
  {Dataset(header, 0, edits) :
     header \in Headers,
     edits \in {es \in SUBSET CellEdits : Cardinality(es) <= MaxPipelineEdits}}

\* training_pipeline.py is started: artifacts/models may hold an earlier model
PipelineInit ==
  /\ ServingIdle
  /\ ThreadsIdle
  /\ csv \in {<<>>} \cup {<<d>> : d \in PipelineDatasets}
  /\ inplace_fill \in BOOLEAN
  /\ df = <<>>
  /\ label_log = EmptyLog
  /\ processed = EmptyDir
  /\ raised = <<>>
  /\ pc = "load_data"
  /\ trainer = <<>>
  /\ models \in {EmptyDir, [f \in {"model.pkl"} |-> StaleModel]}
  /\ metrics = <<>>

\* processor.run(), then trainer.run(): an exception ends the script
PipelineNext ==
  \/ load_data /\ UNCHANGED <<servingVars, trainerVars, threads>>
  \/ preprocess /\ UNCHANGED <<servingVars, trainerVars, threads>>
  \/ label_encode /\ UNCHANGED <<servingVars, trainerVars, threads>>
  \/ split_data /\ UNCHANGED <<servingVars, trainerVars, threads>>
  \/ ModelTraining_init /\ UNCHANGED <<servingVars, threads>>
  \/ ModelTraining_load_data /\ UNCHANGED <<servingVars, threads>>
  \/ train_model /\ UNCHANGED <<servingVars, threads>>
  \/ eval_model /\ UNCHANGED <<servingVars, threads>>

PipelineSpec == PipelineInit /\ [][PipelineNext]_vars

\* the server is up and no request is in flight
ConcurrentInit ==
  /\ DEFAULTS \in {MakeDEFAULTS(today) : today \in StartDays}
  /\ model \in Models
  /\ request = <<>>
  /\ response = <<>>
  /\ TrainingIdle
  /\ TrainerIdle
  /\ threads = [t \in 1..NumThreads |-> IdleThread]

ConcurrentNext ==
  \E t \in 1..NumThreads :
    \/ Begin(t) /\ UNCHANGED <<request, response, trainingVars, trainerVars>>
    \/ Infer(t) /\ UNCHANGED <<request, response, trainingVars, trainerVars>>
    \/ Reflect(t) /\ UNCHANGED <<request, response, trainingVars, trainerVars>>
    \/ PredictRow(t) /\ UNCHANGED <<request, response, trainingVars, trainerVars>>
    \/ Render(t) /\ UNCHANGED <<request, response, trainingVars, trainerVars>>
    \/ Finish(t) /\ UNCHANGED <<request, response, trainingVars, trainerVars>>

ConcurrentSpec == ConcurrentInit /\ [][ConcurrentNext]_vars

(***************************************************************************)
(* Properties                                                              *)
(***************************************************************************)
\* the schema order of the feature row, as the specification lists it
SchemaOrder ==
  <<"Location", "MinTemp", "MaxTemp", "Rainfall", "Evaporation", "Sunshine",
    "WindGustDir", "WindGustSpeed", "WindDir9am", "WindDir3pm", "WindSpeed9am",
    "WindSpeed3pm", "Humidity9am", "Humidity3pm", "Pressure9am", "Pressure3pm",
    "Cloud9am", "Cloud3pm", "Temp9am", "Temp3pm", "RainToday", "Year", "Month",
    "Day">>

Pos(name) == CHOOSE i \in DOMAIN SchemaOrder : SchemaOrder[i] = name

\* index() has answered the POST at hand
Answered == request # <<>> /\ response # <<>> /\ request[1].method = "POST"

\* ... with a prediction: the request was accepted
Accepted == Answered /\ response[1].prediction # <<>> /\ response[1].error = <<>>

\* ... with an error and no prediction: the request was rejected
Rejected == Answered /\ response[1].prediction = <<>> /\ response[1].error # <<>>

\* the value at the named position of the row handed to the model
Feature(name) == response[1].X[Pos(name)]

\* the integer part of a finite float
IntOf(x) == x.v \div Unit

\* the text the request at hand posted for k (<<>> when it posted none)
Posted(k) == request[1].form[k]

\* the serving-time table of each encoded column
ServingTable(col) ==
  CASE col = "Location" -> LOCATION_MAP
    [] col \in {"WindGustDir", "WindDir9am", "WindDir3pm"} -> WIND_DIR_MAP
    [] col \in {"RainToday", "RainTomorrow"} -> YES_NO_MAP

\* C1: once label_encode has completed, for every column it encoded whose
\* distinct labels are exactly the labels of the serving-time table of that
\* column, the mapping it built (label -> index in sorted order) is that table.
C1_ServingTablesAreTrainingEncodings ==
  pc \in {"split_data", "done"} =>
  \A col \in DOMAIN label_log :
    DOMAIN label_log[col] = DOMAIN ServingTable(col)
      => label_log[col] = ServingTable(col)

\* C2 as claimed: the location vocabulary a request is encoded with has 48
\* entries and LOCATION_MAP maps them one-to-one onto 0..47.
C2_FortyEightLocations ==
  Accepted
    => /\ Len(LOCATIONS) = 48
       /\ Cardinality(DOMAIN LOCATION_MAP) = 48
       /\ {LOCATION_MAP[l] : l \in DOMAIN LOCATION_MAP} = 0..47

\* LOCATION_MAP maps the 47 entries of LOCATIONS one-to-one onto 0..46, and
\* re-encoding a decoded code returns it
LocationTableIsBijection ==
  /\ Len(LOCATIONS) = 47
  /\ Cardinality(DOMAIN LOCATION_MAP) = 47
  /\ {LOCATION_MAP[l] : l \in DOMAIN LOCATION_MAP} = 0..46
  /\ \A a, b \in DOMAIN LOCATION_MAP : LOCATION_MAP[a] = LOCATION_MAP[b] => a = b
  /\ \A c \in 0..46 : LOCATION_MAP[LOCATIONS[c + 1]] = c

\* C2 amended: the location vocabulary has 47 entries and LOCATION_MAP maps
\* them one-to-one onto 0..46; decoding a code via LOCATIONS and re-encoding
\* it returns the code, and the row of an accepted request that posted a
\* vocabulary location carries, at the Location position, the code that
\* decodes to that location.
C2_LocationBijection ==
  /\ LocationTableIsBijection
  /\ Accepted /\ Posted("Location") # <<>> /\ Posted("Location")[1] \in Range(LOCATIONS)
       => LET c == IntOf(Feature("Location"))
          IN  /\ c \in 0..46
              /\ Feature("Location") = FromInt(c)
              /\ LOCATIONS[c + 1] = Posted("Location")[1]

C2_Witness ==
  /\ Accepted
  /\ Posted("Location") = <<"Woomera">>
  /\ Feature("Location") = FromInt(46)

\* the measurement columns of the dataset at hand are in the dataset's order
MeasurementsInDatasetOrder ==
  /\ csv # <<>>
  /\ Without(Without(csv[1].columns, "Date"), "RainTomorrow")
       = Without(Without(DatasetColumns, "Date"), "RainTomorrow")

\* a value of _infer_missing_features as the row holds it
AsFloat(vals, name) ==
  IF name \in IntFeatures THEN FromInt(vals[name]) ELSE vals[name]

\* C3: the feature columns split_data persists for a dataset whose measurement
\* columns are in the dataset's order (Date removed, Year/Month/Day appended,
\* RainTomorrow dropped) are the 24 names of the schema order, in that order,
\* and the row _build_feature_vector_from_inferred emits for an accepted
\* request holds at each position the feature that training column names.
C3_RowOrderIsTrainingOrder ==
  "X_train.pkl" \in DOMAIN processed /\ MeasurementsInDatasetOrder
    => /\ processed["X_train.pkl"].columns = SchemaOrder
       /\ FeatureOrder = processed["X_train.pkl"].columns
       /\ \A form \in {BaseForm,
                       [BaseForm EXCEPT !.Location = <<"Hobart">>,
                                        !.Humidity3pm = <<"62.5">>,
                                        !.Rainfall = <<"0.3">>]} :
            LET vals == _infer_missing_features(form, DEFAULTS).v[1]
                row  == _build_feature_vector_from_inferred(vals)
            IN  /\ Len(row) = Len(processed["X_train.pkl"].columns)
                /\ \A i \in DOMAIN row :
                     row[i] = AsFloat(vals, processed["X_train.pkl"].columns[i])

C3_Witness ==
  /\ pc = "done"
  /\ csv # <<>>
  /\ csv[1].columns = DatasetColumns
  /\ processed["X_train.pkl"].columns = SchemaOrder
  /\ Len(processed["X_train.pkl"].rows) > 0

\* the kinds of the fields of the row
LocationFields == {"Location"}

CategoricalFields == {"WindGustDir", "WindDir9am", "WindDir3pm", "RainToday"}

CalendarFields == {"Year", "Month", "Day"}

MeasurementFields ==
  Range(FeatureOrder) \ (LocationFields \cup CategoricalFields \cup CalendarFields)

\* C4 as claimed: the row handed to the classifier has exactly 23 fields: one
\* location code, 15 numeric measurements, 5 categorical codes and year,
\* month, day.
C4_TwentyThreeFields ==
  Accepted
    => /\ Len(response[1].X) = 23
       /\ Cardinality(MeasurementFields) = 15
       /\ Cardinality(CategoricalFields) = 5

\* C4 amended: the row handed to the classifier has exactly 24 fields: one
\* location code, 16 numeric measurements, 4 wind-direction/rain categorical
\* codes (three wind directions in 0..15, RainToday in 0..1) and year, month,
\* day.
C4_TwentyFourFields ==
  Accepted
    => /\ Len(response[1].X) = 24
       /\ Cardinality(Range(FeatureOrder)) = 24
       /\ LocationFields \cup CategoricalFields \cup CalendarFields \subseteq Range(FeatureOrder)
       /\ Cardinality(MeasurementFields) = 16
       /\ Cardinality(CategoricalFields) = 4
       /\ \A f \in CategoricalFields \ {"RainToday"} :
            IntOf(Feature(f)) \in 0..15 /\ Feature(f) = FromInt(IntOf(Feature(f)))
       /\ Feature("RainToday") \in {FromInt(0), FromInt(1)}
       /\ IntOf(Feature("Location")) \in 0..46
       /\ Feature("Location") = FromInt(IntOf(Feature("Location")))

C4_Witness == Accepted /\ Len(response[1].X) = 24 /\ Feature("Day") = FromInt(15)

\* C5: for every accepted request with minTemp <= maxTemp, temp3pm and
\* temp9am both lie within [minTemp, maxTemp].
C5_TempsWithinRange ==
  Accepted /\ FLe(Feature("MinTemp"), Feature("MaxTemp"))
    => /\ FLe(Feature("MinTemp"), Feature("Temp3pm"))
       /\ FLe(Feature("Temp3pm"), Feature("MaxTemp"))
       /\ FLe(Feature("MinTemp"), Feature("Temp9am"))
       /\ FLe(Feature("Temp9am"), Feature("MaxTemp"))

C5_Witness ==
  /\ Accepted
  /\ Feature("MinTemp") = FromInt(-10)
  /\ Feature("MaxTemp") = FromInt(50)
  /\ FLt(Feature("MinTemp"), Feature("Temp9am"))
  /\ FLt(Feature("Temp9am"), Feature("Temp3pm"))
  /\ FLt(Feature("Temp3pm"), Feature("MaxTemp"))

\* C6: for every accepted humidity3pm (the integer h in 0..100 the posted
\* value is parsed to, which is also the Humidity3pm position of the row),
\* cloud3pm equals cloud9am, both lie in 0..8, and cloud3pm is h/100*8 rounded
\* to the nearest integer.
C6_CloudFromHumidity ==
  Accepted
    => LET h == IntOf(Feature("Humidity3pm"))
           c == IntOf(Feature("Cloud3pm"))
       IN
         /\ h \in 0..100
         /\ c \in 0..8
         /\ Feature("Humidity3pm") = FromInt(h)
         /\ Feature("Cloud3pm") = FromInt(c)
         /\ Feature("Cloud9am") = FromInt(c)
         /\ 2 * (8 * h - 100 * c) <= 100
         /\ 2 * (100 * c - 8 * h) <= 100

C6_Witness ==
  /\ Accepted
  /\ Feature("Humidity3pm") = FromInt(70)
  /\ Feature("Cloud3pm") = FromInt(6)
  /\ Feature("Cloud9am") = FromInt(6)

\* C7: for every accepted request, the RainToday position is 1 if the
\* rainfall is greater than 0.2 and 0 otherwise; a rainfall of exactly 0.2
\* gives 0 ("No").
C7_RainTodayThreshold ==
  Accepted
    => /\ Feature("RainToday") =
            (IF FGt(Feature("Rainfall"), Tenths(2)) THEN FromInt(1) ELSE FromInt(0))
       /\ Posted("Rainfall") = <<"0.2">> => Feature("RainToday") = FromInt(0)
       /\ Posted("Rainfall") = <<"0.3">> => Feature("RainToday") = FromInt(1)

C7_Witness ==
  /\ Accepted
  /\ Posted("Rainfall") = <<"0.2">>
  /\ Feature("Rainfall") = Tenths(2)
  /\ Feature("RainToday") = FromInt(0)

\* C8: for every accepted windSpeed3pm s, windSpeed9am is max(0, s - 3): it
\* is 0, never negative, for s in {0, 1, 2}.
C8_WindSpeed9am ==
  Accepted
    => LET s == IntOf(Feature("WindSpeed3pm"))
       IN
         /\ s \in 0..100
         /\ Feature("WindSpeed3pm") = FromInt(s)
         /\ Feature("WindSpeed9am") = FromInt(IF s >= 3 THEN s - 3 ELSE 0)
         /\ s \in {0, 1, 2} => Feature("WindSpeed9am") = FromInt(0)

C8_Witness ==
  /\ Accepted
  /\ Posted("WindSpeed3pm") = <<"2">>
  /\ Feature("WindSpeed9am") = FromInt(0)

\* every input of the request at hand but the wind speed is the baseline's
OnlyWindVaried == \A k \in FormFields \ {"WindSpeed3pm"} : Posted(k) = BaseForm[k]

\* C9 as claimed: gustSpeed is min(150, windSpeed3pm + 20), and a request with
\* windSpeed3pm = 140 produces a row whose gust speed is 150.
C9_GustCappedAt140 ==
  /\ Accepted
       => LET s == IntOf(Feature("WindSpeed3pm"))
          IN
            /\ s \in 0..150
            /\ Feature("WindSpeed3pm") = FromInt(s)
            /\ Feature("WindGustSpeed") = FromInt(IF s + 20 < 150 THEN s + 20 ELSE 150)
  /\ Answered /\ OnlyWindVaried /\ Posted("WindSpeed3pm") = <<"140">>
       => Accepted /\ Feature("WindGustSpeed") = FromInt(150)

\* C9 amended: for every accepted request gustSpeed is
\* min(150, windSpeed3pm + 20), which is windSpeed3pm + 20 and at most 120,
\* because windSpeed3pm is accepted only within 0..100: a request with
\* windSpeed3pm = 140 is rejected as out of range and yields no row.
C9_GustSpeed ==
  /\ Accepted
       => LET s == IntOf(Feature("WindSpeed3pm"))
          IN
            /\ s \in 0..100
            /\ Feature("WindSpeed3pm") = FromInt(s)
            /\ Feature("WindGustSpeed") = FromInt(IF s + 20 < 150 THEN s + 20 ELSE 150)
            /\ Feature("WindGustSpeed") = FromInt(s + 20)
  /\ Answered /\ Posted("WindSpeed3pm") = <<"140">>
       => /\ Rejected
          /\ response[1].X = <<>>
          /\ OnlyWindVaried
               => response[1].error = <<[name |-> "WindSpeed3pm", what |-> "out of range"]>>

C9_Witness ==
  /\ Rejected
  /\ OnlyWindVaried
  /\ Posted("WindSpeed3pm") = <<"140">>
  /\ response[1].error = <<[name |-> "WindSpeed3pm", what |-> "out of range"]>>

\* the request at hand posted a location that is not in the vocabulary
UnknownLocation == Posted("Location") # <<>> /\ Posted("Location")[1] \notin Range(LOCATIONS)

\* C10: a request whose location is not in the vocabulary is answered as the
\* same request with the first vocabulary entry (Adelaide) is as far as
\* acceptance goes: it is not rejected for its location; when accepted, its
\* Location position is 0, the code of Adelaide, and its three wind-direction
\* positions hold the code of "SW".
C10_UnknownLocationFallback ==
  Answered /\ UnknownLocation
    => LET adelaide == index([request[1] EXCEPT !.form.Location = <<LOCATIONS[1]>>],
                             DEFAULTS, model)
       IN  /\ response[1].error = adelaide.error
           /\ (response[1].prediction # <<>>) = (adelaide.prediction # <<>>)
           /\ Accepted
                => /\ Feature("Location") = FromInt(0)
                   /\ Feature("Location") = adelaide.X[Pos("Location")]
                   /\ Feature("WindGustDir") = FromInt(WIND_DIR_MAP["SW"])
                   /\ Feature("WindDir9am") = FromInt(WIND_DIR_MAP["SW"])
                   /\ Feature("WindDir3pm") = FromInt(WIND_DIR_MAP["SW"])

C10_Witness ==
  /\ Accepted
  /\ Posted("Location") = <<"Geelong">>
  /\ Feature("Location") = FromInt(0)
  /\ Feature("WindDir3pm") = FromInt(10)

\* the request at hand is the worked example of the specification: Sydney,
\* 2024-07-15, 10, 18, 70, 15, 0
WorkedExample == Answered /\ \A k \in FormFields : Posted(k) = BaseForm[k]

\* C11: the request Sydney / 2024-07-15 / MinTemp 10 / MaxTemp 18 /
\* Humidity3pm 70 / WindSpeed3pm 15 / Rainfall 0 is accepted; its month is a
\* winter month; the row handed to the model has 24 positions in schema
\* order, with Sunshine 5.0, Cloud3pm = Cloud9am = 6, Pressure3pm = Pressure9am
\* = 1013.4, the three wind directions equal to the code of "NE", RainToday 0,
\* and the posted values and the date parts at their own positions.
C11_WorkedExample ==
  WorkedExample
    => /\ Accepted
       /\ _season_of(IntOf(Feature("Month"))) = "winter"
       /\ Len(response[1].X) = 24
       /\ Feature("Sunshine") = Tenths(50)
       /\ Feature("Cloud3pm") = FromInt(6)
       /\ Feature("Cloud9am") = FromInt(6)
       /\ Feature("Pressure3pm") = Tenths(10134)
       /\ Feature("Pressure9am") = Tenths(10134)
       /\ Feature("WindGustDir") = FromInt(WIND_DIR_MAP["NE"])
       /\ Feature("WindDir9am") = FromInt(WIND_DIR_MAP["NE"])
       /\ Feature("WindDir3pm") = FromInt(WIND_DIR_MAP["NE"])
       /\ Feature("RainToday") = FromInt(0)
       /\ Feature("Location") = FromInt(LOCATION_MAP["Sydney"])
       /\ Feature("MinTemp") = FromInt(10)
       /\ Feature("MaxTemp") = FromInt(18)
       /\ Feature("Rainfall") = FromInt(0)
       /\ Feature("Humidity3pm") = FromInt(70)
       /\ Feature("WindSpeed3pm") = FromInt(15)
       /\ Feature("Year") = FromInt(2024)
       /\ Feature("Month") = FromInt(7)
       /\ Feature("Day") = FromInt(15)

C11_Witness ==
  /\ WorkedExample
  /\ Accepted
  /\ Feature("Pressure3pm") = Tenths(10134)
  /\ Feature("WindDir3pm") = FromInt(2)

\* the season of each month and the sunshine hours of each season, as the
\* specification states them
SeasonByMonth ==
  [m \in 1..12 |->
     CASE m \in {12, 1, 2} -> "summer"
       [] m \in {3, 4, 5} -> "autumn"
       [] m \in {6, 7, 8} -> "winter"
       [] m \in {9, 10, 11} -> "spring"]

SunshineBySeason ==
  ("summer" :> Tenths(90)) @@ ("autumn" :> Tenths(70)) @@
  ("winter" :> Tenths(50)) @@ ("spring" :> Tenths(80))

\* C12: _season_of maps months 12, 1, 2 to summer, 3, 4, 5 to autumn, 6, 7, 8
\* to winter and 9, 10, 11 to spring, and the Sunshine position of every
\* accepted request is 9.0, 7.0, 5.0 or 8.0 according to the season of the
\* month of its date.
C12_SeasonOfMonth ==
  /\ \A m \in 1..12 : _season_of(m) = SeasonByMonth[m]
  /\ Accepted
       => /\ IntOf(Feature("Month")) \in 1..12
          /\ Feature("Sunshine") = SunshineBySeason[SeasonByMonth[IntOf(Feature("Month"))]]

C12_Witness ==
  /\ Accepted
  /\ Posted("Date") = <<"2025-12-01">>
  /\ Feature("Month") = FromInt(12)
  /\ Feature("Sunshine") = Tenths(90)

\* the five numeric inputs of the form
NumericFields == {"MinTemp", "MaxTemp", "Humidity3pm", "WindSpeed3pm", "Rainfall"}

\* the text index() reads for field k of the request at hand: the posted one,
\* or the text of the default when the field was not posted
Effective(k) == FormGet(request[1].form, k, PyStr(DEFAULTS[k]))

\* a text that is the literal of a number lying within the configured range of k
NumberInRange(k, text) ==
  /\ text \in DOMAIN FloatLiteral
  /\ FloatLiteral[text].k = "fin"
  /\ FloatLiteral[text].v >= RANGES[k].min * Unit
  /\ FloatLiteral[text].v <= RANGES[k].max * Unit

\* a text of the shape YYYY-MM-DD that names a day of the calendar
CalendarDay(text) ==
  /\ text \in DOMAIN IsoParts
  /\ IsoParts[text][2] \in 1..12
  /\ IsoParts[text][3] \in 1..DaysInMonth(IsoParts[text][1], IsoParts[text][2])

\* the request at hand has a numeric input that is no number within its range,
\* or a date that does not parse
InvalidInput ==
  \/ \E k \in NumericFields : ~NumberInRange(k, Effective(k))
  \/ ~CalendarDay(Effective("Date"))

\* C13: a POST whose MinTemp, MaxTemp, Humidity3pm, WindSpeed3pm or Rainfall
\* is not a number within its configured range, or whose Date does not parse,
\* is rejected: no row is handed to model.predict, and the response carries an
\* error message and no prediction.
C13_InvalidInputRejected ==
  Answered /\ InvalidInput
    => /\ Rejected
       /\ response[1].X = <<>>

\* index() has answered the request at hand, a GET
AnsweredGet == request # <<>> /\ response # <<>> /\ request[1].method = "GET"

\* C14: every answered POST has exactly one of prediction and error set; when
\* the prediction is set it is "Rain Tomorrow: Yes" if the classifier returned
\* 1 for the row handed to it and "Rain Tomorrow: No" otherwise; an answered
\* GET has neither set.
C14_PredictionXorError ==
  /\ Answered
       => /\ (response[1].prediction # <<>>) # (response[1].error # <<>>)
          /\ response[1].prediction # <<>>
               => /\ response[1].X # <<>>
                  /\ response[1].prediction \in
                       {<<"Rain Tomorrow: Yes">>, <<"Rain Tomorrow: No">>}
                  /\ (response[1].prediction = <<"Rain Tomorrow: Yes">>)
                       <=> (Predict(model, response[1].X) = 1)
  /\ AnsweredGet
       => /\ response[1].prediction = <<>>
          /\ response[1].error = <<>>

C14_Witness ==
  /\ Accepted
  /\ Predict(model, response[1].X) = 1
  /\ response[1].prediction = <<"Rain Tomorrow: Yes">>

\* every input of the request at hand other than Rainfall is valid
ValidButRainfall ==
  /\ \A k \in NumericFields \ {"Rainfall"} : NumberInRange(k, Effective(k))
  /\ CalendarDay(Effective("Date"))

\* the request at hand left Rainfall out, or posted it blank
RainfallNotSupplied == Posted("Rainfall") \in {<<>>, <<"">>}

\* the request at hand supplied a rainfall that is a number >= 0
RainfallSupplied ==
  /\ Posted("Rainfall") # <<>>
  /\ Posted("Rainfall")[1] \in DOMAIN FloatLiteral
  /\ FloatLiteral[Posted("Rainfall")[1]].k = "fin"
  /\ FloatLiteral[Posted("Rainfall")[1]].v >= 0

\* C15: Rainfall is optional.  A request whose other inputs are valid and that
\* leaves Rainfall out, or posts it blank, is accepted, with Rainfall 0 and
\* RainToday 0 ("No") in the row; and such a request that supplies any
\* rainfall >= 0 is accepted.
C15_RainfallOptional ==
  Answered /\ ValidButRainfall
    => /\ RainfallNotSupplied
            => /\ Accepted
               /\ Feature("Rainfall") = FromInt(0)
               /\ Feature("RainToday") = FromInt(0)
       /\ RainfallSupplied => Accepted

\* the steps of the pipeline in the order the specification gives them: the
\* four of the processor, its return, the three of the trainer, its return
StepOrder ==
  <<"load_data", "preprocess", "label_encode", "split_data", "done",
    "trainer_load_data", "train_model", "eval_model", "completed">>

\* C16: the steps of the pipeline run in the strict order load, preprocess,
\* label-encode, split/persist, trainer load, train/persist, evaluate.  Every
\* step is taken while nothing has been raised, and either raises or hands
\* over to the next step of the order: once a step has raised no step runs,
\* none is retried; the trainer is constructed and changed only after the
\* processor has returned; a model is persisted only by the train step, so
\* none is when data processing failed.
C16_StrictOrder ==
  [][/\ pc # "failed"
     /\ raised = <<>>
     /\ \/ pc' = "failed" /\ raised' # <<>>
        \/ /\ raised' = <<>>
           /\ \E i \in 1..(Len(StepOrder) - 1) :
                pc = StepOrder[i] /\ pc' = StepOrder[i + 1]
     /\ processed' # processed => pc = "split_data"
     /\ trainer' # trainer => pc \in {"done", "trainer_load_data", "train_model"}
     /\ models' # models => pc = "train_model"
     /\ metrics' # metrics => pc = "eval_model"]_vars

C16_Witness ==
  /\ pc = "failed"
  /\ raised = <<"Failed to label encode data">>
  /\ df # <<>>
  /\ processed = EmptyDir
  /\ trainer = <<>>
  /\ "model.pkl" \notin DOMAIN models

\* the split files present in artifacts/processed
Persisted == DOMAIN processed \cap Range(SplitFiles)

\* the datasets the trainer holds in memory
InMemory == {a \in {"X_train", "X_test", "y_train", "y_test"} : trainer[1][a] # <<>>}

\* split_data has returned: the run is past it, or failed in the trainer
SplitReturned ==
  \/ pc \in {"done", "trainer_load_data", "train_model", "eval_model", "completed"}
  \/ pc = "failed" /\ trainer # <<>>

\* ModelTraining.load_data has returned
LoadReturned ==
  \/ pc \in {"train_model", "eval_model", "completed"}
  \/ raised \in {<<"Failed to train model">>, <<"Failed to evaluate model">>}

\* a few requests, accepted and rejected ones
SampleForms ==
  {BaseForm,
   [BaseForm EXCEPT !.MaxTemp = <<"abc">>],
   [BaseForm EXCEPT !.Humidity3pm = <<"100.4">>],
   [BaseForm EXCEPT !.Date = <<"2024-02-30">>],
   [BaseForm EXCEPT !.Location = <<"Atlantis">>, !.Rainfall = <<>>]}

\* what index() renders for a POST of the form
Rendered(form) == index([method |-> "POST", form |-> form], DEFAULTS, model)

\* a request is answered with a prediction and a row, or with an error and neither
CompletedOrRejected(form) ==
  \/ /\ Rendered(form).prediction # <<>>
     /\ Rendered(form).X # <<>>
     /\ Rendered(form).error = <<>>
  \/ /\ Rendered(form).prediction = <<>>
     /\ Rendered(form).X = <<>>
     /\ Rendered(form).error # <<>>

LoadedAndFitted ==
  /\ trainer # <<>>
  /\ InMemory = {"X_train", "X_test", "y_train", "y_test"}
  /\ trainer[1].model # <<>>

\* artifacts/models holds the classifier the trainer fitted
FittedModelPersisted ==
  /\ "model.pkl" \in DOMAIN models
  /\ <<models["model.pkl"]>> = trainer[1].model

\* C18 as stated: once loading and fitting have succeeded the run does not
\* fail, and the fitted model is persisted.
C18_FitSucceededRunSucceeds ==
  LoadedAndFitted
    => /\ pc # "failed"
       /\ FittedModelPersisted

\* C18 as the code has it: evaluation has no gate.  The fitted model is
\* persisted before evaluation starts and evaluation leaves it as it is;
\* whenever evaluation has logged its scores, whatever they are, the run has
\* completed; a run that fails after a successful fit failed because the dump
\* of the model raised (nothing persisted) or because a call inside the
\* evaluation raised (the model stays persisted, no scores logged).
C18_EvaluationHasNoGate ==
  /\ (pc \in {"eval_model", "completed"} \/ raised = <<"Failed to evaluate model">>)
       => LoadedAndFitted /\ FittedModelPersisted
  /\ metrics # <<>> => pc = "completed" /\ raised = <<>>
  /\ (LoadedAndFitted /\ pc = "failed")
       => \/ raised = <<"Failed to train model">> /\ ~FittedModelPersisted
          \/ raised = <<"Failed to evaluate model">> /\ metrics = <<>>

C18_Witness ==
  /\ pc = "completed"
  /\ LoadedAndFitted
  /\ FittedModelPersisted
  /\ metrics # <<>>
  /\ metrics[1].correct = 0

\* the columns of a frame that hold numbers only
NumericColumns(frame) == {c \in Range(frame.columns) : ~IsObject(frame, c)}

\* cell (i, c) of a frame after every missing cell of a numeric column has
\* taken the mean of the cells of that column that are not missing
Imputed(frame, i, c) ==
  IF c \in NumericColumns(frame) /\ frame.rows[i][c].k = "nan"
    THEN ColumnMean(frame, c)
    ELSE frame.rows[i][c]

\* the rows of a frame, by index, that have no missing cell after imputation
RowsWithoutMissing(frame) ==
  SelectSeq([i \in DOMAIN frame.rows |-> i],
            LAMBDA i : \A c \in Range(frame.columns) : Imputed(frame, i, c).k # "nan")

HasRendered(t) == threads[t].pc = "rendered"

\* the request thread t handles
RequestOf(t) == [method |-> threads[t].method, form |-> threads[t].form]

\* C20: handling a request changes neither DEFAULTS nor the loaded model
\* (the vocabulary and range tables are constants of the module, which no
\* handler assigns); and under every interleaving of the requests in flight
\* the page rendered for a request is the page index() renders for that
\* request alone, so two requests with the same method and form values are
\* rendered the same page.
C20_RequestsDoNotInterfere ==
  /\ [][DEFAULTS' = DEFAULTS /\ model' = model]_vars
  /\ [](\A t \in 1..NumThreads :
          HasRendered(t)
            => /\ threads[t].out = <<index(RequestOf(t), DEFAULTS, model)>>
               /\ \A u \in 1..NumThreads :
                    (HasRendered(u) /\ RequestOf(u) = RequestOf(t))
                      => threads[u].out = threads[t].out)

C20_Witness ==
  /\ HasRendered(1)
  /\ threads[1].method = "POST"
  /\ threads[1].form["Location"] = <<"Hobart">>
  /\ threads[1].out[1].inputs["Location"] = PyS("Hobart")
  /\ HasRendered(2)
  /\ threads[2].method = "GET"
  /\ threads[2].out[1].inputs["Location"] = PyS("Sydney")

\* the request at hand posted a non-empty value for field k
PostedNonEmpty(k) == Posted(k) # <<>> /\ Posted(k)[1] # ""

\* C21: after any POST, whether it ended in a prediction or in an error, the
\* inputs rendered back to the form hold, for every field of DEFAULTS for
\* which the request posted a non-empty value, the posted value.
C21_PostedInputsRenderedBack ==
  Answered
    => \A k \in DOMAIN DEFAULTS :
         PostedNonEmpty(k) => response[1].inputs[k] = PyS(Posted(k)[1])

\* C22 as stated: for every accepted request minTemp <= temp9am <= temp3pm
\* <= maxTemp; in particular no accepted request has minTemp > maxTemp.
C22_TemperatureChain ==
  Accepted
    => /\ FLe(Feature("MinTemp"), Feature("Temp9am"))
       /\ FLe(Feature("Temp9am"), Feature("Temp3pm"))
       /\ FLe(Feature("Temp3pm"), Feature("MaxTemp"))
       /\ ~FGt(Feature("MinTemp"), Feature("MaxTemp"))

\* C22 as the code has it: MinTemp and MaxTemp are validated each against its
\* own range and never against each other.  For every accepted request with
\* minTemp <= maxTemp, minTemp <= temp9am <= temp3pm <= maxTemp; a request
\* with minTemp > maxTemp, both within their ranges, is accepted as well, and
\* then temp9am = minTemp and temp3pm = maxTemp, so temp9am > temp3pm.
C22_ChainWhenOrdered ==
  /\ (Accepted /\ FLe(Feature("MinTemp"), Feature("MaxTemp")))
       => /\ FLe(Feature("MinTemp"), Feature("Temp9am"))
          /\ FLe(Feature("Temp9am"), Feature("Temp3pm"))
          /\ FLe(Feature("Temp3pm"), Feature("MaxTemp"))
  /\ (Accepted /\ FGt(Feature("MinTemp"), Feature("MaxTemp")))
       => /\ Feature("Temp9am") = Feature("MinTemp")
          /\ Feature("Temp3pm") = Feature("MaxTemp")
  /\ (Answered /\ ValidButRainfall /\ NumberInRange("Rainfall", Effective("Rainfall")))
       => Accepted

C22_Witness ==
  /\ Accepted
  /\ Posted("MinTemp") = <<"30.5">>
  /\ Posted("MaxTemp") = <<"5">>
  /\ Feature("Temp9am") = Tenths(305)
  /\ Feature("Temp3pm") = FromInt(5)

\* the keys of the prevailing-wind table that are no vocabulary location
KeysOutsideVocabulary == DOMAIN PREVAILING_BY_LOCATION \ Range(LOCATIONS)

\* every direction of the prevailing-wind table, and the default, is a compass label
DirectionsInVocabulary ==
  {PREVAILING_BY_LOCATION[loc] : loc \in DOMAIN PREVAILING_BY_LOCATION} \cup {"SW"}
    \subseteq Range(WIND_DIRS)

\* the location index() reads for the request at hand
EffectiveLocation == FormGet(request[1].form, "Location", DEFAULTS["Location"].s)

\* the three direction positions of the row are equal, lie in 0..15 and are
\* the code of the prevailing direction of the location, which is a compass
\* label: the fallback of the encoder is not taken
DirectionsFromTable ==
  /\ Feature("WindGustDir") = Feature("WindDir3pm")
  /\ Feature("WindDir9am") = Feature("WindDir3pm")
  /\ IntOf(Feature("WindDir3pm")) \in 0..15
  /\ _prevailing_dir_for_location(EffectiveLocation) \in Range(WIND_DIRS)
  /\ Feature("WindDir3pm") =
       FromInt(WIND_DIR_MAP[_prevailing_dir_for_location(EffectiveLocation)])

\* C23 as stated: every key of PREVAILING_BY_LOCATION is a member of
\* LOCATIONS, every value and the default "SW" is a member of WIND_DIRS, and
\* for every accepted request the three direction positions are equal, lie in
\* 0..15 and come from the table without the encoder's fallback.
C23_PrevailingTableInVocabulary ==
  Accepted
    => /\ KeysOutsideVocabulary = {}
       /\ DirectionsInVocabulary
       /\ DirectionsFromTable

\* C23 as the code has it: every key of PREVAILING_BY_LOCATION but "Geelong"
\* is a member of LOCATIONS ("Geelong" is a key and no vocabulary location);
\* every value and the default "SW" is a member of WIND_DIRS, and for every
\* accepted request the three direction positions are equal, lie in 0..15 and
\* come from the table without the encoder's fallback.
C23_PrevailingTableButGeelong ==
  Accepted
    => /\ KeysOutsideVocabulary = {"Geelong"}
       /\ DirectionsInVocabulary
       /\ DirectionsFromTable

C23_Witness ==
  /\ Accepted
  /\ EffectiveLocation = "Geelong"
  /\ EffectiveLocation \in KeysOutsideVocabulary
  /\ Feature("WindGustDir") = FromInt(WIND_DIR_MAP["SW"])
  /\ Feature("WindDir9am") = FromInt(WIND_DIR_MAP["SW"])

\* what _parse_float_in_range returns or raises for the text index() reads
\* for field k of the request at hand
ParsedInRange(k) ==
  _parse_float_in_range(k, Effective(k), RANGES[k].min, RANGES[k].max)

\* a finite float within the configured range of k
FiniteInRange(k, x) ==
  /\ x.k = "fin"
  /\ x.v >= RANGES[k].min * Unit
  /\ x.v <= RANGES[k].max * Unit

\* C24: _parse_float_in_range returns a value x only when lo <= x <= hi and
\* raises the validation error of its field for every other text, the texts
\* of NaN and of the infinities included; so in the row of every accepted
\* request the positions MinTemp, MaxTemp, Rainfall, Humidity3pm and
\* WindSpeed3pm hold finite numbers within their configured ranges.
C24_OnlyInRangeValuesReturned ==
  /\ Answered
       => \A k \in NumericFields :
            /\ ParsedInRange(k).ok => FiniteInRange(k, ParsedInRange(k).v[1])
            /\ ~NumberInRange(k, Effective(k))
                 => /\ ~ParsedInRange(k).ok
                    /\ ParsedInRange(k).err[1].name = k
  /\ Accepted
       => \A k \in NumericFields : FiniteInRange(k, Feature(k))

====
